---- MODULE Spec2Model ----
(***************************************************************************)
(* Verification model of the storefront client's synchronization layer:    *)
(*   - the cart provider (contexts/CartContext.tsx) against the cart       *)
(*     routes of the documented backend (BACKEND_EXAMPLE.md),               *)
(*   - the catalog filter pipeline (BookCatalog.tsx and App.tsx),           *)
(*   - the chat widget's socket and history (ChatWidget.tsx),               *)
(*   - the notification socket effect of App.tsx,                           *)
(*   - the auth store (contexts/AuthContext.tsx) and localStorage,          *)
(*   - the gateway's headers and errors (services/api.ts, config/api.ts),   *)
(*   - the catalog result: normalizeBook, pagination and the rendered page, *)
(*   - the frames sent and received on the sockets.                         *)
(* Each part has its own specification; the variables of the other parts   *)
(* stay unchanged in it.                                                    *)
(***************************************************************************)
EXTENDS Integers, Sequences, FiniteSets, TLC

VARIABLES
    token,        \* AuthContext token (and user, set together): 0 = signed out
    cartItems,    \* CartProvider state: the local list of cart lines
    loading,      \* CartProvider state: the loading flag
    serverCart,   \* backend table cart_items of the user, newest first
    nextLineId,   \* backend: next id the table assigns
    ops,          \* the asynchronous cart calls in flight, in issue order
    issued,       \* number of sign-ins and cart calls made so far
    refreshSeq,   \* number of GET /cart requests issued so far
    lastCommit,   \* request number of the GET /cart whose response was committed last
    scen,         \* observer of the run 'add b, then add b again' on a cart without b
    \* --- the catalog filter pipeline ---
    selectedCategories, \* BookCatalog state
    priceRange,         \* BookCatalog state
    minRating,          \* BookCatalog state
    sortBy,             \* BookCatalog state
    selectedLetter,     \* BookCatalog state
    currentPage,        \* BookCatalog state
    searchQuery,        \* AppContent state, passed to BookCatalog
    filters,            \* AppContent state
    catalogTimers,      \* pending timeouts of the BookCatalog filter effect
    appTimers,          \* pending timeouts of the AppContent fetch effect
    categoriesLoaded,   \* AppContent: setCategories has run after GET /categories
    burst,              \* observer of the current run of rapid filter changes
    lastQuery,          \* the query string of the last GET /books?... sent
    \* --- the realtime sockets ---
    mounted,            \* the component that is mounted: ChatWidget or AppContent
    session,            \* useAuth() token and user as rendered: 0 = signed out
    lastSession,        \* number of sessions established so far
    chatSockets,        \* the sockets ChatWidget created, in creation order
    socketRef,          \* ChatWidget socketRef.current: an index, 0 = null
    isConnected,        \* ChatWidget state
    chatDeps,           \* the session of the last run of the ChatWidget effect
    chatTimers,         \* pending reconnect timeouts set by ws.onclose
    messages,           \* ChatWidget state: the message list
    delivered,          \* observer: the messages handed to the widget so far
    fetches,            \* fetchHistory calls in flight
    serverLog,          \* the messages the chat service stores
    appSockets,         \* the sockets the AppContent effect created
    ws,                 \* AppContent state ws: an index, 0 = null
    appDeps,            \* [token, ws] of the last run of the AppContent effect
    appCleanup,         \* the socket the cleanup of that run closes, 0 = no cleanup
    wsUnauthorizedRef,  \* AppContent ref
    wsConnectingRef,    \* AppContent ref
    rejected,           \* observer: the sessions whose handshake the server refused
    \* --- the auth store ---
    authUser,           \* AuthProvider state user: {} = null
    authToken,          \* AuthProvider state token: {} = null
    authLoading,        \* AuthProvider state loading
    localStorage,       \* the entries under TOKEN_KEY and USER_KEY: {} = no entry
    authPhase,          \* "mounting" before the mount effect, then "ready" or "crashed"
    authCalls,          \* the signIn / signUp / signOut calls waiting for the gateway
    authIssued,         \* number of auth calls made so far
    authResult,         \* observer: the call that returned last and how
    \* --- the backend ---
    envelope,           \* the shape the backend wraps the rows of GET /cart in
    \* --- AppContent.handleAddToCart ---
    toast,              \* AppContent state toast: {} = null
    handled,            \* observer: the addToCart failure the handler caught last
    \* --- the catalog result ---
    appCategories,      \* AppContent state categories
    books,              \* AppContent state books
    pagination,         \* AppContent state pagination: {} = undefined
    bookFetches,        \* the categories in the closures of the GET /books in flight
    lastResponse,       \* observer: the books array normalized last, and its categories
    \* --- the frames on the sockets ---
    input,              \* ChatWidget state input
    sendCalls,          \* the texts handed to WebSocket.send, in order
    frameLog,           \* observer: the message events handled so far
    \* --- the gateway ---
    gwCalls,            \* the authenticated calls waiting for the gateway, by name
    lastRequest,        \* observer: the request fetchAPI sent last
    unauthorized,       \* observer: the number of calls answered with 401
    \* --- buildQueryString ---
    queryParams,        \* the filter state buildQueryString is applied to
    queryString,        \* the query built from it: <<>> = none yet
    \* --- the errors of the cart mutations ---
    thrown,             \* observer: the error of the cart mutation that threw last
    \* --- CartDrawer.handleCheckout ---
    address,            \* user.address of the signed-in user: "" = none
    notice,             \* observer: the alert handleCheckout showed last
    \* --- the pending add of AppContent and the login modal ---
    pendingCartAction,  \* AppContent state pendingCartAction: 0 = null
    showLoginModal,     \* AppContent state showLoginModal
    loginFlight,        \* the sign-in calls of LoginModal in flight, with their closures
    \* --- the GET /books requests of AppContent ---
    booksInFlight,      \* the fetchBooksWithFilters calls waiting for their response
    querySeq,           \* the number of queries sent so far
    shownQuery          \* observer: the query whose response was set last

cartVars == <<token, cartItems, loading, serverCart, nextLineId, ops, issued,
              refreshSeq, lastCommit, scen>>

catalogVars == <<selectedCategories, priceRange, minRating, sortBy, selectedLetter,
                 currentPage, searchQuery, filters, catalogTimers, appTimers,
                 categoriesLoaded, burst, lastQuery>>

realtimeVars == <<mounted, session, lastSession, chatSockets, socketRef, isConnected, chatDeps,
                  chatTimers, messages, delivered, fetches, serverLog, appSockets, ws,
                  appDeps, appCleanup, wsUnauthorizedRef, wsConnectingRef, rejected>>

storeVars == <<authUser, authToken, authLoading, localStorage, authPhase, authCalls,
               authIssued, authResult>>

handlerVars == <<toast, handled>>

backendVars == <<envelope>>

resultVars == <<appCategories, books, pagination, bookFetches, lastResponse>>

wireVars == <<input, sendCalls, frameLog>>

gatewayVars == <<gwCalls, lastRequest, unauthorized>>

queryVars == <<queryParams, queryString>>

outcomeVars == <<thrown>>

checkoutVars == <<address, notice>>

modalVars == <<pendingCartAction, showLoginModal, loginFlight>>
overlapVars == <<booksInFlight, querySeq, shownQuery>>

-----------------------------------------------------------------------------
(* Optional values: a value that may be undefined is a set with at most one element *)

\* an optional value (a field that may be missing): {} is undefined
Some(v) == {v}
Undefined == {}

The(opt) == CHOOSE v \in opt : TRUE

-----------------------------------------------------------------------------
(* Bounds of the cart model *)

NumBooks == 2
MaxCalls == 2
MaxQty == 3

Books == 1..NumBooks

\* book.stock as reported by the backend, the same for every book
Stock == MaxQty

-----------------------------------------------------------------------------
(* Sequences of cart lines *)

Line(id, b, q) == [id |-> id, book_id |-> b, quantity |-> q]

RECURSIVE SeqFilterOut(_, _)
\* the lines of s whose id is not lineId
SeqFilterOut(s, lineId) ==
    IF s = <<>> THEN <<>>
    ELSE IF Head(s).id = lineId THEN SeqFilterOut(Tail(s), lineId)
    ELSE <<Head(s)>> \o SeqFilterOut(Tail(s), lineId)

LineIds(s) == {s[i].id : i \in 1..Len(s)}

\* cartItems.find(item => item.book_id === bookId): index of the first match, 0 if none
FindByBook(s, b) ==
    IF \E i \in 1..Len(s) : s[i].book_id = b
    THEN CHOOSE i \in 1..Len(s) : s[i].book_id = b /\ \A j \in 1..(i-1) : s[j].book_id # b
    ELSE 0

FindById(s, id) ==
    IF \E i \in 1..Len(s) : s[i].id = id
    THEN CHOOSE i \in 1..Len(s) : s[i].id = id /\ \A j \in 1..(i-1) : s[j].id # id
    ELSE 0

RECURSIVE SumQty(_)
\* cartItems.reduce((sum, item) => sum + item.quantity, 0)
SumQty(s) == IF s = <<>> THEN 0 ELSE Head(s).quantity + SumQty(Tail(s))

\* a count of the lines instead of the copies
cartCount_CountsLines == Len(cartItems)

cartCount == SumQty(cartItems)

-----------------------------------------------------------------------------
(* The backend's cart routes *)

\* POST /cart/add {bookId, quantity}: increments the existing row or inserts one
ServerAdd(cart, b, q, newId) ==
    LET i == FindByBook(cart, b) IN
    IF i # 0
    THEN [cart EXCEPT ![i].quantity = cart[i].quantity + q]
    ELSE <<Line(newId, b, q)>> \o cart

\* PUT /cart/:itemId {quantity}: deletes for quantity <= 0, else sets the quantity
ServerUpdate(cart, id, q) ==
    IF q <= 0 THEN SeqFilterOut(cart, id)
    ELSE LET i == FindById(cart, id) IN [cart EXCEPT ![i].quantity = q]

\* DELETE /cart/:itemId
ServerRemove(cart, id) == SeqFilterOut(cart, id)

\* whether the backend accepts the request (404 for an unknown row, stock exhausted)
ServerAccepts(cart, op) ==
    CASE op.req = "add" ->
            LET i == FindByBook(cart, op.book) IN
            (IF i = 0 THEN op.qty ELSE cart[i].quantity + op.qty) <= Stock
      [] op.req = "update" ->
            op.qty <= 0 \/ (FindById(cart, op.item) # 0 /\ op.qty <= Stock)
      [] op.req = "remove" -> FindById(cart, op.item) # 0
      [] OTHER -> TRUE

ServerApply(cart, op, newId) ==
    CASE op.req = "add" -> ServerAdd(cart, op.book, op.qty, newId)
      [] op.req = "update" -> ServerUpdate(cart, op.item, op.qty)
      [] op.req = "remove" -> ServerRemove(cart, op.item)
      [] OTHER -> cart

-----------------------------------------------------------------------------
(* The cart provider *)

NoLine == 0

\* one asynchronous call: what was called, the mutation request it sent,
\* where it is suspended, and the response it is waiting for
Op(call, req, ui, b, item, q, pc) ==
    [call |-> call, req |-> req, ui |-> ui, book |-> b, item |-> item, qty |-> q,
     pc |-> pc, res |-> "none", snap |-> <<>>, seq |-> 0]

RemoveAt(s, i) == SubSeq(s, 1, i - 1) \o SubSeq(s, i + 1, Len(s))

\* refreshCart up to its await: setLoading(true) and the GET /cart request
StartRefresh(op) == [op EXCEPT !.pc = "getReq", !.seq = refreshSeq + 1, !.res = "none"]

\* the refreshCart call the [user, token] effect makes for a session
EffectRefresh(seq) ==
    [Op("refresh", "none", "effect", 0, NoLine, 0, "getReq") EXCEPT !.seq = seq]

\* The observer: "adding1" while the first addToCart(b) on a cart without b is
\* the only call in flight, "added1" once it resolved with its refresh
\* committed, "adding2"/"added2" likewise for the second addToCart(b) made
\* next; "off" once anything else happened or failed.
Scen(phase, b) == [phase |-> phase, book |-> b]

ScenAdd(b) ==
    IF scen.phase = "idle" /\ ops = <<>> /\ FindByBook(cartItems, b) = 0
       /\ FindByBook(serverCart, b) = 0
    THEN Scen("adding1", b)
    ELSE IF scen.phase = "added1" /\ scen.book = b /\ ops = <<>>
    THEN Scen("adding2", b)
    ELSE IF scen.phase = "idle" THEN scen ELSE Scen("off", 0)

ScenOther == IF scen.phase = "idle" THEN scen ELSE Scen("off", 0)

ScenResolved ==
    IF scen.phase = "adding1" THEN Scen("added1", scen.book)
    ELSE IF scen.phase = "adding2" THEN Scen("added2", scen.book)
    ELSE scen

\* The state once the providers have mounted: AuthProvider found no stored
\* session, or it restored one and the cart effect has called refreshCart.
CartInit ==
    /\ token \in {0, 1}
    /\ cartItems = <<>>
    /\ loading = (token # 0)
    /\ serverCart = <<Line(1, 1, 1)>>
    /\ nextLineId = 2
    /\ ops = IF token # 0 THEN <<EffectRefresh(1)>> ELSE <<>>
    /\ issued = 0
    /\ refreshSeq = (IF token # 0 THEN 1 ELSE 0)
    /\ lastCommit = 0
    /\ scen = Scen("idle", 0)

\* login sets user and token; the [user, token] effect calls refreshCart
SignIn ==
    /\ token = 0
    /\ issued < MaxCalls
    /\ token' = 1
    /\ issued' = issued + 1
    /\ ops' = Append(ops, EffectRefresh(refreshSeq + 1))
    /\ refreshSeq' = refreshSeq + 1
    /\ loading' = TRUE
    /\ scen' = ScenOther
    /\ UNCHANGED <<cartItems, serverCart, nextLineId, lastCommit>>

\* a [user, token] effect whose else branch leaves the local cart alone
SignOut_KeepsCart ==
    /\ token # 0
    /\ token' = 0
    /\ scen' = ScenOther
    /\ UNCHANGED <<cartItems, loading, serverCart, nextLineId, ops, issued, refreshSeq, lastCommit>>

\* signOut clears user and token; the [user, token] effect empties the local cart
SignOut ==
    /\ token # 0
    /\ token' = 0
    /\ cartItems' = <<>>
    /\ scen' = ScenOther
    /\ UNCHANGED <<loading, serverCart, nextLineId, ops, issued, refreshSeq, lastCommit>>

\* updateQuantity without the quantity <= 0 branch
UpdateQuantityOp_NoFloor(ui, itemId, quantity) ==
    Op("update", "update", ui, 0, itemId, quantity, "mutReq")

\* updateQuantity(itemId, quantity) up to its first await
UpdateQuantityOp(ui, itemId, quantity) ==
    IF quantity <= 0
    THEN Op("update", "remove", ui, 0, itemId, quantity, "mutReq")
    ELSE Op("update", "update", ui, 0, itemId, quantity, "mutReq")

\* addToCart without the lookup of an existing line
AddToCartOp_NoFind(bookId) == Op("add", "add", "add", bookId, NoLine, 1, "mutReq")

\* addToCart(bookId) up to its first await
AddToCartOp(bookId) ==
    LET i == FindByBook(cartItems, bookId) IN
    IF i # 0
    THEN [UpdateQuantityOp("add", cartItems[i].id, cartItems[i].quantity + 1)
             EXCEPT !.call = "add", !.book = bookId]
    ELSE Op("add", "add", "add", bookId, NoLine, 1, "mutReq")

Issue(op) ==
    /\ token # 0
    /\ issued < MaxCalls
    /\ issued' = issued + 1
    /\ ops' = Append(ops, op)
    /\ scen' = IF op.call = "add" THEN ScenAdd(op.book) ELSE ScenOther
    /\ UNCHANGED <<token, cartItems, loading, serverCart, nextLineId,
                   refreshSeq, lastCommit>>

AddToCart(bookId) == Issue(AddToCartOp(bookId))

UpdateQuantity(itemId, quantity) ==
    Issue(UpdateQuantityOp("direct", itemId, quantity))

\* removeFromCart(itemId) up to its await
RemoveFromCart(itemId) ==
    Issue(Op("remove", "remove", "direct", 0, itemId, 0, "mutReq"))

\* CartDrawer: the + button of a rendered line
HandleIncrease(i) ==
    /\ ~loading
    /\ cartItems[i].quantity < Stock
    /\ Issue(UpdateQuantityOp("increase", cartItems[i].id, cartItems[i].quantity + 1))

\* CartDrawer: the - button of a rendered line
HandleDecrease(i) ==
    /\ ~loading
    /\ cartItems[i].quantity # 1
    /\ Issue(UpdateQuantityOp("decrease", cartItems[i].id, cartItems[i].quantity - 1))

-----------------------------------------------------------------------------
(* The requests in flight: the backend handles them, the provider resumes *)

\* why the backend rejects a mutation: stock exhausted, or another error (404)
Rejection(cart, op) ==
    IF op.req \in {"add", "update"} /\ op.qty > 0
       /\ (op.req = "add" \/ FindById(cart, op.item) # 0)
    THEN "stock" ELSE "error"

\* the caller's catch: CartDrawer.handleIncrease refreshes the cart after an
\* insufficient-stock rejection, every other caller only shows a toast
RefreshesOnError(op, res) == op.ui = "increase" /\ res = "stock"

\* The backend handles the mutation request of ops[k] and its answer reaches
\* the provider: after 2xx the call goes on to refreshCart, after an error
\* status fetchAPI throws the ApiError and the call throws to its caller.
MutationReturns(k) ==
    /\ ops[k].pc = "mutReq"
    /\ IF ServerAccepts(serverCart, ops[k])
       THEN /\ serverCart' = ServerApply(serverCart, ops[k], nextLineId)
            /\ nextLineId' = IF Len(serverCart') > Len(serverCart)
                             THEN nextLineId + 1 ELSE nextLineId
            /\ ops' = [ops EXCEPT ![k] = StartRefresh(ops[k])]
            /\ refreshSeq' = refreshSeq + 1
            /\ loading' = TRUE
            /\ scen' = scen
       ELSE IF RefreshesOnError(ops[k], Rejection(serverCart, ops[k]))
       THEN /\ ops' = [ops EXCEPT ![k] = [StartRefresh(ops[k]) EXCEPT !.call = "refresh"]]
            /\ refreshSeq' = refreshSeq + 1
            /\ loading' = TRUE
            /\ scen' = ScenOther
            /\ UNCHANGED <<serverCart, nextLineId>>
       ELSE /\ ops' = RemoveAt(ops, k)
            /\ scen' = ScenOther
            /\ UNCHANGED <<serverCart, nextLineId, refreshSeq, loading>>
    /\ UNCHANGED <<token, cartItems, issued, lastCommit>>

\* the backend answers GET /cart of ops[k] with the rows it holds now
ServerGet(k) ==
    /\ ops[k].pc = "getReq"
    /\ ops' = [ops EXCEPT ![k].pc = "getResp", ![k].res = "ok", ![k].snap = serverCart]
    /\ UNCHANGED <<token, cartItems, loading, serverCart, nextLineId, issued,
                   refreshSeq, lastCommit, scen>>

\* the body of a GET /cart response: { cart: { items } }, { items }, or neither
Envelopes == {"nested", "flat", "neither"}

CartResponse(shape, rows) ==
    [cart |-> IF shape = "nested" THEN Some([items |-> Some(rows)]) ELSE Undefined,
     items |-> IF shape = "flat" THEN Some(rows) ELSE Undefined]

\* a normalization that knows the nested envelope only
NormalizeCart_NestedOnly(response) ==
    LET nested == IF response.cart # Undefined THEN The(response.cart).items ELSE Undefined
    IN IF nested # Undefined THEN The(nested) ELSE <<>>

\* response.cart?.items || response.items || []
NormalizeCart(response) ==
    LET nested == IF response.cart # Undefined THEN The(response.cart).items ELSE Undefined
    IN IF nested # Undefined THEN The(nested)
       ELSE IF response.items # Undefined THEN The(response.items)
       ELSE <<>>

\* the local list refreshCart sets from a response
Committed(op) == NormalizeCart(CartResponse(envelope, op.snap))

\* the GET /cart of ops[k] settles: its response arrives and refreshCart sets
\* the local list from it, or the request fails (lost) and refreshCart logs
\* the error; either way the loading flag is cleared and the call resolves
RefreshReturns(k) ==
    /\ ops[k].pc = "getResp"
    /\ \E lost \in BOOLEAN :
         IF ~lost
         THEN /\ cartItems' = Committed(ops[k])
              /\ lastCommit' = ops[k].seq
              /\ scen' = ScenResolved
         ELSE /\ scen' = ScenOther
              /\ UNCHANGED <<cartItems, lastCommit>>
    /\ loading' = FALSE
    /\ ops' = RemoveAt(ops, k)
    /\ UNCHANGED <<token, serverCart, nextLineId, issued, refreshSeq>>

\* the catalog and the realtime sockets rest while the cart runs
CartOnly ==
    UNCHANGED <<catalogVars, realtimeVars, storeVars, handlerVars, backendVars,
                resultVars, wireVars, gatewayVars, queryVars, outcomeVars, checkoutVars,
         modalVars, overlapVars>>

CartNext ==
    \/ SignIn /\ CartOnly
    \/ SignOut /\ CartOnly
    \/ \E b \in Books : AddToCart(b) /\ CartOnly
    \/ \E i \in 1..Len(cartItems) : \E q \in -1..1 : UpdateQuantity(cartItems[i].id, q) /\ CartOnly
    \/ \E i \in 1..Len(cartItems) : RemoveFromCart(cartItems[i].id) /\ CartOnly
    \/ \E i \in 1..Len(cartItems) : HandleIncrease(i) /\ CartOnly
    \/ \E i \in 1..Len(cartItems) : HandleDecrease(i) /\ CartOnly
    \/ \E k \in 1..Len(ops) : ServerGet(k) /\ CartOnly
    \/ \E k \in 1..Len(ops) : MutationReturns(k) /\ CartOnly
    \/ \E k \in 1..Len(ops) : RefreshReturns(k) /\ CartOnly


-----------------------------------------------------------------------------
(* Properties of the cart provider, checked under SpecCart *)

LinesOfBook(s, b) == {i \in 1..Len(s) : s[i].book_id = b}

\* C1: two calls addToCart(b) made one after the other (each resolved, its
\* refresh committed, nothing else going on) for a book b that was not in
\* the cart: the second call sends no POST /cart/add but the update of the
\* existing line to quantity 2, and the cart ends with exactly one line for
\* b, of quantity 2, locally and on the backend.
C1_IdempotentAdd ==
    /\ scen.phase = "adding2" =>
          \A k \in 1..Len(ops) :
              /\ ops[k].req = "update"
              /\ ops[k].qty = 2
              /\ \E i \in LinesOfBook(serverCart, scen.book) : serverCart[i].id = ops[k].item
    /\ scen.phase = "added2" =>
          /\ Cardinality(LinesOfBook(cartItems, scen.book)) = 1
          /\ \A i \in LinesOfBook(cartItems, scen.book) : cartItems[i].quantity = 2
          /\ Cardinality(LinesOfBook(serverCart, scen.book)) = 1
          /\ \A i \in LinesOfBook(serverCart, scen.book) : serverCart[i].quantity = 2

C1_Witness == scen.phase = "added2" /\ ops = <<>>

\* C2: updateQuantity(lineId, q) with q <= 0 sends the delete of that line
\* and never a PUT with a quantity <= 0; no line of quantity <= 0 exists on
\* the backend or locally.
C2_QuantityFloor ==
    /\ \A k \in 1..Len(ops) :
          /\ ops[k].req = "update" => ops[k].qty >= 1
          /\ (ops[k].call = "update" /\ ops[k].qty <= 0 /\ ops[k].pc = "mutReq")
                => ops[k].req = "remove"
    /\ \A i \in 1..Len(serverCart) : serverCart[i].quantity >= 1
    /\ \A i \in 1..Len(cartItems) : cartItems[i].quantity >= 1

\* updateQuantity(line, -1) was called, its delete reached the backend and
\* the refreshed local cart no longer holds the line
C2_Witness ==
    \E k \in 1..Len(ops) :
        /\ ops[k].call = "update" /\ ops[k].qty = -1
        /\ ops[k].pc = "getResp" /\ ops[k].res = "ok"
        /\ FindById(ops[k].snap, ops[k].item) = 0
        /\ FindById(serverCart, ops[k].item) = 0

\* C22: in every state cartCount is the number of copies in the local cart
\* (each line counted as many times as its quantity says), it is not
\* negative, and it is 0 when the local cart is empty.
C22_CountIsSumOfQuantities ==
    /\ cartCount = Cardinality(UNION {{<<i, copy>> : copy \in 1..cartItems[i].quantity} :
                                          i \in 1..Len(cartItems)})
    /\ cartCount >= 0
    /\ cartItems = <<>> => cartCount = 0

\* a local cart of two lines that holds more copies than lines
C22_Witness == Len(cartItems) >= 2 /\ cartCount > Len(cartItems)

\* C3: the response of a GET /cart request that is older than the request
\* whose response was committed last is discarded: it does not change the
\* local cart, which keeps reflecting the newer refresh.
C3_StaleRefreshDiscarded == [][lastCommit' < lastCommit => cartItems' = cartItems]_cartVars

\* the line (or, for a first add, the book) a mutation request is about
SameTarget(a, b) ==
    \/ a.item # NoLine /\ a.item = b.item
    \/ a.req = "add" /\ b.req = "add" /\ a.book = b.book

MutationInFlight(op) == op.pc = "mutReq"

\* C4: mutations of one line are serialized: no two mutation requests about
\* the same line are in flight at once.
C4_SameLineSerialized ==
    \A j, k \in 1..Len(ops) :
        (j # k /\ MutationInFlight(ops[j]) /\ MutationInFlight(ops[k]))
            => ~SameTarget(ops[j], ops[k])

\* C11: a step that ends the session (the token goes from present to absent)
\* leaves the local cart empty, and it does so locally: no request is added
\* to those in flight and the server's cart is what it was.
C11_LogoutClearsLocally ==
    [][(token # 0 /\ token' = 0)
          => (cartItems' = <<>> /\ ops' = ops /\ serverCart' = serverCart)]_cartVars

\* a session whose cart had been loaded from a non-empty server cart has
\* ended: the local cart is empty while the server still holds its lines
C11_Witness ==
    token = 0 /\ lastCommit > 0 /\ cartItems = <<>> /\ serverCart # <<>>

\* C35: while the client is signed out the local cart is empty: the response
\* of a GET /cart requested before the logout is not set once the session is
\* gone.
C35_NoCommitAfterLogout == token = 0 => cartItems = <<>>

-----------------------------------------------------------------------------
(* The catalog filter pipeline: BookCatalog's filter state, its debounced   *)
(* onFilterChange, AppContent's filters and its debounced fetch             *)

ITEMS_PER_PAGE == 12
CatalogDebounceMs == 300
AppDebounceMs == 300

\* bounds of the pipeline model
MaxBurst == 5
MaxPage == 2

\* the clock advances in halves of the debounce delay
TimeStep == CatalogDebounceMs \div 2

DefaultPriceRange == <<0, 500000>>
PriceRanges == {DefaultPriceRange}
Ratings == {0, 4}
SortOptions == {"newest", "price-asc", "price-desc", "rating", "bestseller"}
CategorySets == {<<>>, <<"c1">>}
SearchTexts == {"", "tla"}
Letters == {""}

\* filterParams of the BookCatalog effect
FilterParamsOf(cats, price, rating, sort, search, page) ==
    [categories |-> IF Len(cats) > 0 THEN Some(cats) ELSE Undefined,
     minPrice |-> Some(price[1]),
     maxPrice |-> Some(price[2]),
     minRating |-> IF rating > 0 THEN Some(rating) ELSE Undefined,
     sortBy |-> Some(sort),
     search |-> Some(search),
     page |-> Some(page),
     limit |-> Some(ITEMS_PER_PAGE)]

\* a ?? b
Coalesce(opt, b) == IF opt = Undefined THEN b ELSE The(opt)

\* a || b for a number: 0 is falsy too
OrNumber(opt, b) == IF opt = Undefined \/ The(opt) = 0 THEN b ELSE The(opt)

\* a || b for a string: '' is falsy too
OrString(opt, b) == IF opt = Undefined \/ The(opt) = "" THEN b ELSE The(opt)

\* the updater handleFilterChange passes to setFilters
HandleFilterChange(prev, fp) ==
    [categories |-> IF fp.categories = Undefined THEN <<>> ELSE The(fp.categories),
     minPrice |-> Coalesce(fp.minPrice, prev.minPrice),
     maxPrice |-> Coalesce(fp.maxPrice, prev.maxPrice),
     minRating |-> Coalesce(fp.minRating, prev.minRating),
     sortBy |-> OrString(fp.sortBy, prev.sortBy),
     search |-> Coalesce(fp.search, prev.search),
     page |-> OrNumber(fp.page, 1),
     limit |-> OrNumber(fp.limit, prev.limit)]

SortField(sort) ==
    CASE sort = "price-asc" -> <<"price", "asc">>
      [] sort = "price-desc" -> <<"price", "desc">>
      [] sort = "rating" -> <<"rating_avg", "desc">>
      [] sort = "bestseller" -> <<"sold", "desc">>
      [] OTHER -> <<"created_at", "desc">>

\* categories.join(',')
RECURSIVE Join(_)
Join(cats) ==
    IF cats = <<>> THEN ""
    ELSE IF Len(cats) = 1 THEN Head(cats)
    ELSE Head(cats) \o "," \o Join(Tail(cats))

\* a buildQueryString that appends the search text whatever it is
BuildQueryString_AlwaysSearch(params) ==
    <<<<"page", params.page>>, <<"limit", params.limit>>>>
    \o (IF Len(params.categories) > 0
        THEN <<<<"categories", Join(params.categories)>>>> ELSE <<>>)
    \o <<<<"min_price", params.minPrice>>, <<"max_price", params.maxPrice>>>>
    \o (IF params.minRating > 0 THEN <<<<"min_rating", params.minRating>>>> ELSE <<>>)
    \o <<<<"search", params.search>>>>
    \o <<<<"sort_by", SortField(params.sortBy)[1]>>,
         <<"sort_order", SortField(params.sortBy)[2]>>>>

\* buildQueryString: the parameters appended, in order
BuildQueryString(params) ==
    <<<<"page", params.page>>, <<"limit", params.limit>>>>
    \o (IF Len(params.categories) > 0
        THEN <<<<"categories", Join(params.categories)>>>> ELSE <<>>)
    \o <<<<"min_price", params.minPrice>>, <<"max_price", params.maxPrice>>>>
    \o (IF params.minRating > 0 THEN <<<<"min_rating", params.minRating>>>> ELSE <<>>)
    \o (IF params.search # "" THEN <<<<"search", params.search>>>> ELSE <<>>)
    \o <<<<"sort_by", SortField(params.sortBy)[1]>>,
         <<"sort_order", SortField(params.sortBy)[2]>>>>

InitialFilters ==
    [categories |-> <<>>, minPrice |-> 0, maxPrice |-> 500000, minRating |-> 0,
     sortBy |-> "newest", search |-> "", page |-> 1, limit |-> 12]

\* a pending setTimeout: the time left until it fires and what its callback holds
Timer(delay, payload) == [left |-> delay, payload |-> payload]

\* clearTimeout(timeoutId) of the effect's previous run, then its new setTimeout
Rearm(timers, delay, payload) == {Timer(delay, payload)}

Elapse(timers, ms) == {Timer(t.left - ms, t.payload) : t \in timers}

NoQuery == <<>>

\* the query string the BookCatalog state stands for
QueryOfState(cats, price, rating, sort, search, page) ==
    BuildQueryString([categories |-> cats, minPrice |-> price[1], maxPrice |-> price[2],
                      minRating |-> rating, sortBy |-> sort, search |-> search,
                      page |-> page, limit |-> ITEMS_PER_PAGE])

QuietPipeline == catalogTimers = {} /\ appTimers = {} /\ categoriesLoaded

\* The observer of a run of rapid changes: a change made while nothing is
\* pending starts a run; a later change made within the debounce delay of the
\* first one continues it; any other change ends the observation.
\* n: the changes of the run; elapsed: the time since its first change (up to
\* the debounce delay); queries: the queries sent since it started.
NoBurst == [n |-> 0, elapsed |-> 0, queries |-> 0]

BurstOnChange ==
    IF QuietPipeline
    THEN [n |-> 1, elapsed |-> 0, queries |-> 0]
    ELSE IF burst.n > 0 /\ burst.n < MaxBurst /\ burst.elapsed < CatalogDebounceMs
         THEN [burst EXCEPT !.n = burst.n + 1]
         ELSE NoBurst

Min(a, b) == IF a < b THEN a ELSE b

CatalogInit ==
    /\ selectedCategories = <<>>
    /\ priceRange = DefaultPriceRange
    /\ minRating = 0
    /\ sortBy = "newest"
    /\ selectedLetter = ""
    /\ currentPage = 1
    /\ searchQuery = ""
    /\ filters = InitialFilters
    /\ catalogTimers = {Timer(CatalogDebounceMs,
                              FilterParamsOf(<<>>, DefaultPriceRange, 0, "newest", "", 1))}
    /\ appTimers = {Timer(AppDebounceMs, InitialFilters)}
    /\ categoriesLoaded = FALSE
    /\ burst = NoBurst
    /\ lastQuery = NoQuery

\* A handler of BookCatalog (or Header's onSearchChange) sets the state; when
\* a dependency of the filter effect changed, the effect's cleanup clears its
\* timeout and the effect sets a new one carrying the new filterParams.
SetCatalogState(cats, price, rating, sort, letter, page, search, depsChanged) ==
    /\ selectedCategories' = cats
    /\ priceRange' = price
    /\ minRating' = rating
    /\ sortBy' = sort
    /\ selectedLetter' = letter
    /\ currentPage' = page
    /\ searchQuery' = search
    /\ IF depsChanged
       THEN /\ catalogTimers' = Rearm(catalogTimers, CatalogDebounceMs,
                                      FilterParamsOf(cats, price, rating, sort, search, page))
            /\ burst' = BurstOnChange
       ELSE UNCHANGED <<catalogTimers, burst>>
    /\ UNCHANGED <<filters, appTimers, categoriesLoaded, lastQuery>>

HandleClearFilters ==
    SetCatalogState(<<>>, DefaultPriceRange, 0, "newest", "", 1, searchQuery, TRUE)

HandleSortChange(value) ==
    SetCatalogState(selectedCategories, priceRange, minRating, value, selectedLetter, 1,
                    searchQuery, value # sortBy \/ currentPage # 1)

\* handleCategoryChange without setCurrentPage(1)
HandleCategoryChange_KeepsPage(categories) ==
    SetCatalogState(categories, priceRange, minRating, sortBy, selectedLetter, currentPage,
                    searchQuery, TRUE)

HandleCategoryChange(categories) ==
    SetCatalogState(categories, priceRange, minRating, sortBy, selectedLetter, 1,
                    searchQuery, TRUE)

HandlePriceChange(range) ==
    SetCatalogState(selectedCategories, range, minRating, sortBy, selectedLetter, 1,
                    searchQuery, TRUE)

HandleRatingChange(rating) ==
    SetCatalogState(selectedCategories, priceRange, rating, sortBy, selectedLetter, 1,
                    searchQuery, rating # minRating \/ currentPage # 1)

HandleLetterChange(letter) ==
    SetCatalogState(selectedCategories, priceRange, minRating, sortBy, letter, 1,
                    searchQuery, currentPage # 1)

HandlePageChange(page) ==
    SetCatalogState(selectedCategories, priceRange, minRating, sortBy, selectedLetter,
                    page, searchQuery, page # currentPage)

\* Header's onSearchChange is AppContent's setSearchQuery
SearchChange(text) ==
    SetCatalogState(selectedCategories, priceRange, minRating, sortBy, selectedLetter,
                    currentPage, text, text # searchQuery)

\* the BookCatalog timeout fires: onFilterChange(filterParams) sets filters, and
\* the AppContent effect, which depends on filters, sets its timeout anew
CatalogTimerFires(t) ==
    /\ t \in catalogTimers
    /\ t.left <= 0
    /\ catalogTimers' = catalogTimers \ {t}
    /\ filters' = HandleFilterChange(filters, t.payload)
    /\ appTimers' = Rearm(appTimers, AppDebounceMs, filters')
    /\ UNCHANGED <<selectedCategories, priceRange, minRating, sortBy, selectedLetter,
                   currentPage, searchQuery, categoriesLoaded, burst, lastQuery>>

\* the AppContent timeout fires: fetchBooksWithFilters sends the query built
\* from the filters of the render that set the timeout
AppTimerFires(t) ==
    /\ t \in appTimers
    /\ t.left <= 0
    /\ appTimers' = appTimers \ {t}
    /\ lastQuery' = BuildQueryString(t.payload)
    /\ burst' = IF burst.n > 0 THEN [burst EXCEPT !.queries = burst.queries + 1] ELSE burst
    /\ UNCHANGED <<selectedCategories, priceRange, minRating, sortBy, selectedLetter,
                   currentPage, searchQuery, filters, catalogTimers, categoriesLoaded>>

\* fetchCategories resolves: setCategories changes a dependency of the
\* AppContent effect, which sets its timeout anew
CategoriesLoaded ==
    /\ ~categoriesLoaded
    /\ categoriesLoaded' = TRUE
    /\ appTimers' = Rearm(appTimers, AppDebounceMs, filters)
    /\ UNCHANGED <<selectedCategories, priceRange, minRating, sortBy, selectedLetter,
                   currentPage, searchQuery, filters, catalogTimers, burst, lastQuery>>

\* time passes while a timeout is pending; a timeout fires when it is due
Tick ==
    /\ catalogTimers # {} \/ appTimers # {}
    /\ \A t \in catalogTimers : t.left > 0
    /\ \A t \in appTimers : t.left > 0
    /\ catalogTimers' = Elapse(catalogTimers, TimeStep)
    /\ appTimers' = Elapse(appTimers, TimeStep)
    /\ burst' = IF burst.n > 0
                THEN [burst EXCEPT !.elapsed = Min(burst.elapsed + TimeStep, CatalogDebounceMs)]
                ELSE burst
    /\ UNCHANGED <<selectedCategories, priceRange, minRating, sortBy, selectedLetter,
                   currentPage, searchQuery, filters, categoriesLoaded, lastQuery>>

\* the cart and the realtime sockets rest while the filter pipeline runs
CatalogOnly ==
    UNCHANGED <<cartVars, realtimeVars, storeVars, handlerVars, backendVars,
                resultVars, wireVars, gatewayVars, queryVars, outcomeVars, checkoutVars,
         modalVars, overlapVars>>

DebounceNext ==
    \/ HandleClearFilters /\ CatalogOnly
    \/ \E v \in {"newest", "price-asc"} : HandleSortChange(v) /\ CatalogOnly
    \/ \E r \in Ratings : HandleRatingChange(r) /\ CatalogOnly
    \/ \E c \in CategorySets : HandleCategoryChange(c) /\ CatalogOnly
    \/ \E range \in PriceRanges : HandlePriceChange(range) /\ CatalogOnly
    \/ \E l \in Letters : HandleLetterChange(l) /\ CatalogOnly
    \/ \E p \in 1..MaxPage : HandlePageChange(p) /\ CatalogOnly
    \/ \E q \in SearchTexts : SearchChange(q) /\ CatalogOnly
    \/ \E t \in catalogTimers : CatalogTimerFires(t) /\ CatalogOnly
    \/ \E t \in appTimers : AppTimerFires(t) /\ CatalogOnly
    \/ CategoriesLoaded /\ CatalogOnly
    \/ Tick /\ CatalogOnly

\* the filter pipeline driven by the five filter handlers and the pager alone
PagingNext ==
    \/ \E v \in {"newest", "price-asc"} : HandleSortChange(v) /\ CatalogOnly
    \/ \E r \in Ratings : HandleRatingChange(r) /\ CatalogOnly
    \/ \E c \in CategorySets : HandleCategoryChange(c) /\ CatalogOnly
    \/ \E range \in PriceRanges : HandlePriceChange(range) /\ CatalogOnly
    \/ \E l \in Letters : HandleLetterChange(l) /\ CatalogOnly
    \/ \E p \in 1..MaxPage : HandlePageChange(p) /\ CatalogOnly
    \/ \E t \in catalogTimers : CatalogTimerFires(t) /\ CatalogOnly
    \/ \E t \in appTimers : AppTimerFires(t) /\ CatalogOnly
    \/ CategoriesLoaded /\ CatalogOnly
    \/ Tick /\ CatalogOnly

-----------------------------------------------------------------------------
(* Properties of the filter pipeline *)

\* a run of MaxBurst rapid changes that began with nothing pending, all of them
\* made within the debounce delay, and whose timeouts have all fired
BurstSettled ==
    /\ burst.n = MaxBurst
    /\ QuietPipeline

\* the part of C5 about the number of queries and the cancelled timeouts
DebounceCollapses ==
    /\ BurstSettled => burst.queries = 1
    /\ Cardinality(catalogTimers) <= 1
    /\ Cardinality(appTimers) <= 1

\* C5: five rapid filter changes within 300ms produce exactly one outbound
\* catalog query, parameterized by the final filter state; a pending debounce
\* timer is cancelled when the state changes again before it fires (at most one
\* timeout of each layer is pending).
C5_DebounceCollapse ==
    /\ BurstSettled =>
          /\ burst.queries = 1
          /\ lastQuery = QueryOfState(selectedCategories, priceRange, minRating, sortBy,
                                      searchQuery, currentPage)
    /\ Cardinality(catalogTimers) <= 1
    /\ Cardinality(appTimers) <= 1

-----------------------------------------------------------------------------
(* The realtime sockets: ChatWidget (socket with reconnect, history fetch)   *)
(* and the notification socket of AppContent                                 *)

ReconnectDelayMs == 3000

\* bounds of the realtime model
MaxSessions == 2
MaxChatSockets == 3
MaxAppSockets == 2
MaxPosts == 2

\* the clock advances in halves of the reconnect delay
RtStep == ReconnectDelayMs \div 2

Msg(id, at) == [id |-> id, created_at |-> at]

\* the backlog the chat service holds at first, and the messages posted later:
\* the first of them carries a timestamp between those of the backlog
Backlog == {Msg(1, 10), Msg(2, 20), Msg(3, 30)}
Postable == {Msg(3 + k, IF k = 1 THEN 25 ELSE 30 + 10 * (k - 1)) : k \in 1..MaxPosts}

Earliest(S) == CHOOSE m \in S : \A o \in S : m.created_at <= o.created_at

\* GET /chat/history: the stored messages by timestamp
RECURSIVE HistoryOf(_)
HistoryOf(S) ==
    IF S = {} THEN <<>> ELSE <<Earliest(S)>> \o HistoryOf(S \ {Earliest(S)})

\* new WebSocket(url) with the handlers set on it.  retries, age, auto and
\* afterReject observe the socket: the reconnects made by timeouts its close
\* handler set, the time since the server or the network closed it, whether a
\* timeout created it, and whether its session had been rejected before.
Socket(tok, auto, afterReject) ==
    [tok |-> tok, state |-> "connecting", armed |-> TRUE, closedBy |-> "none",
     failed |-> FALSE, inbox |-> <<>>, retries |-> 0, age |-> 0,
     auto |-> auto, afterReject |-> afterReject]

\* readyState CONNECTING or OPEN
Live(s) == s.state \in {"connecting", "open"}

\* socket.onclose = null, left out
Disarm_Kept(s) == s

\* socket.onclose = null
Disarm(s) == [s EXCEPT !.armed = FALSE]

\* socket.close(), left out
Close_Skipped(s) == s

\* socket.close(): a socket closed before its connection is established fails
Close(s) ==
    IF Live(s)
    THEN [s EXCEPT !.state = "closing", !.closedBy = "client",
                   !.failed = (s.state = "connecting")]
    ELSE s

\* the existing socket closed with its close handler still set
CloseExisting_StillArmed(socks, ref) ==
    IF ref = 0 THEN socks ELSE [socks EXCEPT ![ref] = Close(@)]

\* if (socketRef.current) { socketRef.current.onclose = null; socketRef.current.close(); }
CloseExisting(socks, ref) ==
    IF ref = 0 THEN socks ELSE [socks EXCEPT ![ref] = Close(Disarm(@))]

\* connectWebSocket of the render that holds token tok
ConnectWebSocket(socks, ref, tok, auto) ==
    IF tok = 0 THEN socks
    ELSE Append(CloseExisting(socks, ref), Socket(tok, auto, tok \in rejected))

\* the server or the network ends socket s
EndedByServer(s, failed) ==
    [s EXCEPT !.state = "closed", !.closedBy = "server", !.failed = failed,
              !.inbox = <<>>]

ReconnectTimer(i, tok) == [left |-> ReconnectDelayMs, tok |-> tok, from |-> i]

\* ChatWidget and AppContent each hold a socket of their own, and App.tsx does
\* not render ChatWidget: each component is followed mounted on its own
Components == {"ChatWidget", "AppContent"}

RealtimeInit ==
    /\ mounted \in Components
    /\ session = 0
    /\ lastSession = 0
    /\ chatSockets = <<>>
    /\ socketRef = 0
    /\ isConnected = FALSE
    /\ chatDeps = 0
    /\ chatTimers = {}
    /\ messages = <<>>
    /\ delivered = {}
    /\ fetches = {}
    /\ serverLog = Backlog
    /\ appSockets = <<>>
    /\ ws = 0
    /\ appDeps = <<0, 0>>
    /\ appCleanup = 0
    /\ wsUnauthorizedRef = FALSE
    /\ wsConnectingRef = FALSE
    /\ rejected = {}

authVars == <<mounted, session, lastSession>>
chatSocketVars == <<chatSockets, socketRef, isConnected, chatDeps, chatTimers>>
chatMessageVars == <<messages, delivered, fetches, serverLog>>
appSocketVars == <<appSockets, ws, appDeps, appCleanup, wsUnauthorizedRef,
                   wsConnectingRef>>

\* the effect of the mounted component has run for the render on screen
EffectsSettled ==
    IF mounted = "ChatWidget" THEN chatDeps = session ELSE appDeps = <<session, ws>>

\* signInWithEmail / signUpWithEmail resolve, after their requests and with
\* the effects of the earlier render run: setToken(newToken); setUser(newUser)
Login ==
    /\ session = 0
    /\ EffectsSettled
    /\ lastSession < MaxSessions
    /\ session' = lastSession + 1
    /\ lastSession' = lastSession + 1
    /\ UNCHANGED <<mounted, chatSocketVars, chatMessageVars, appSocketVars, rejected>>

\* signOut after its request: setToken(null); setUser(null)
Logout ==
    /\ session # 0
    /\ EffectsSettled
    /\ session' = 0
    /\ UNCHANGED <<mounted, lastSession, chatSocketVars, chatMessageVars, appSocketVars, rejected>>

\* The ChatWidget effect runs again because token and user changed: the
\* cleanup of its last run, then connectWebSocket() and fetchHistory().
ChatEffect ==
    /\ mounted = "ChatWidget"
    /\ chatDeps # session
    /\ chatDeps' = session
    /\ LET cleaned == CloseExisting(chatSockets, socketRef) IN
       IF session # 0
       THEN /\ Len(chatSockets) < MaxChatSockets
            /\ chatSockets' = ConnectWebSocket(cleaned, socketRef, session, FALSE)
            /\ socketRef' = Len(chatSockets) + 1
            /\ fetches' = fetches \cup {[tok |-> session, stage |-> "request", data |-> <<>>]}
       ELSE /\ chatSockets' = cleaned
            /\ UNCHANGED <<socketRef, fetches>>
    /\ UNCHANGED <<authVars, isConnected, chatTimers, messages, delivered, serverLog,
                   appSocketVars, rejected>>

\* ws.onopen
ChatSocketOpens(i) ==
    /\ i \in DOMAIN chatSockets
    /\ chatSockets[i].state = "connecting"
    /\ chatSockets' = [chatSockets EXCEPT ![i].state = "open"]
    /\ isConnected' = TRUE
    /\ UNCHANGED <<authVars, socketRef, chatDeps, chatTimers, chatMessageVars,
                   appSocketVars, rejected>>

\* the close event of chat socket i, which is socks[i] by now: ws.onclose, when
\* it is still set, clears the flag and sets the reconnect timeout
ChatCloseEvent(i, socks) ==
    /\ chatSockets' = socks
    /\ IF chatSockets[i].armed
       THEN /\ isConnected' = FALSE
            /\ chatTimers' = chatTimers \cup {ReconnectTimer(i, chatSockets[i].tok)}
       ELSE UNCHANGED <<isConnected, chatTimers>>
    /\ UNCHANGED <<authVars, socketRef, chatDeps, chatMessageVars, appSocketVars>>

\* the server refuses the handshake of chat socket i: the token is not accepted
ChatHandshakeRejected(i) ==
    /\ i \in DOMAIN chatSockets
    /\ chatSockets[i].state = "connecting"
    /\ rejected' = rejected \cup {chatSockets[i].tok}
    /\ ChatCloseEvent(i, [chatSockets EXCEPT ![i] = EndedByServer(@, TRUE)])

\* the server or the network ends the open chat socket i
ChatConnectionLost(i) ==
    /\ i \in DOMAIN chatSockets
    /\ chatSockets[i].state = "open"
    /\ UNCHANGED rejected
    /\ ChatCloseEvent(i, [chatSockets EXCEPT ![i] = EndedByServer(@, FALSE)])

\* the close the client asked for completes
ChatCloseCompletes(i) ==
    /\ i \in DOMAIN chatSockets
    /\ chatSockets[i].state = "closing"
    /\ UNCHANGED rejected
    /\ ChatCloseEvent(i, [chatSockets EXCEPT ![i].state = "closed", ![i].inbox = <<>>])

\* the timeout set by ws.onclose fires: if (user && token) connectWebSocket(),
\* with user, token and connectWebSocket of the render that created the socket
ChatTimerFires(t) ==
    /\ t \in chatTimers
    /\ t.left <= 0
    /\ chatTimers' = chatTimers \ {t}
    /\ IF t.tok # 0
       THEN /\ Len(chatSockets) < MaxChatSockets
            /\ chatSockets' = [ConnectWebSocket(chatSockets, socketRef, t.tok, TRUE)
                                  EXCEPT ![t.from].retries = @ + 1]
            /\ socketRef' = Len(chatSockets) + 1
       ELSE UNCHANGED <<chatSockets, socketRef>>
    /\ UNCHANGED <<authVars, isConnected, chatDeps, chatMessageVars, appSocketVars,
                   rejected>>

\* the chat service handles GET /chat/history
HistoryServed(f) ==
    /\ f \in fetches
    /\ f.stage = "request"
    /\ fetches' = (fetches \ {f}) \cup {[f EXCEPT !.stage = "response",
                                                  !.data = HistoryOf(serverLog)]}
    /\ UNCHANGED <<authVars, chatSocketVars, messages, delivered, serverLog,
                   appSocketVars, rejected>>

\* fetchHistory after its awaits: setMessages(data)
HistoryResolves(f) ==
    /\ f \in fetches
    /\ f.stage = "response"
    /\ fetches' = fetches \ {f}
    /\ messages' = f.data
    /\ delivered' = delivered \cup {f.data[k] : k \in DOMAIN f.data}
    /\ UNCHANGED <<authVars, chatSocketVars, serverLog, appSocketVars, rejected>>

\* the chat service stores a new message and sends it to the open sockets
ServerPost(m) ==
    /\ m \in Postable \ serverLog
    /\ serverLog' = serverLog \cup {m}
    /\ chatSockets' = [i \in DOMAIN chatSockets |->
                         IF chatSockets[i].state = "open"
                         THEN [chatSockets[i] EXCEPT
                                 !.inbox = Append(@, [type |-> "chat", payload |-> m])]
                         ELSE chatSockets[i]]
    /\ UNCHANGED <<authVars, socketRef, isConnected, chatDeps, chatTimers, messages,
                   delivered, fetches, appSocketVars, rejected>>

\* ws.onmessage of chat socket i
FrameArrives(i) ==
    /\ i \in DOMAIN chatSockets
    /\ chatSockets[i].state = "open"
    /\ chatSockets[i].inbox # <<>>
    /\ LET data == Head(chatSockets[i].inbox) IN
       /\ messages' = IF data.type = "chat" THEN Append(messages, data.payload)
                      ELSE messages
       /\ delivered' = delivered \cup {data.payload}
    /\ chatSockets' = [chatSockets EXCEPT ![i].inbox = Tail(@)]
    /\ UNCHANGED <<authVars, socketRef, isConnected, chatDeps, chatTimers, fetches,
                   serverLog, appSocketVars, rejected>>

\* The AppContent socket effect runs again because token or ws changed: the
\* cleanup its last run returned, then its body with the token and ws of the
\* render.
AppEffect ==
    /\ mounted = "AppContent"
    /\ appDeps # <<session, ws>>
    /\ appDeps' = <<session, ws>>
    /\ LET cleaned == IF appCleanup # 0
                      THEN [appSockets EXCEPT ![appCleanup] = Close(@)]
                      ELSE appSockets
       IN
       IF session = 0 \/ wsUnauthorizedRef \/ wsConnectingRef
       THEN /\ appSockets' = IF session = 0 /\ ws # 0
                             THEN [cleaned EXCEPT ![ws] = Close(@)]
                             ELSE cleaned
            /\ ws' = IF appCleanup # 0 \/ (session = 0 /\ ws # 0) THEN 0 ELSE ws
            /\ appCleanup' = 0
            /\ UNCHANGED wsConnectingRef
       ELSE /\ Len(appSockets) < MaxAppSockets
            /\ wsConnectingRef' = TRUE
            /\ appSockets' = Append(cleaned, Socket(session, FALSE, session \in rejected))
            /\ ws' = Len(appSockets) + 1
            /\ appCleanup' = Len(appSockets) + 1
    /\ UNCHANGED <<authVars, chatSocketVars, chatMessageVars, wsUnauthorizedRef, rejected>>

\* socket.onopen
AppSocketOpens(i) ==
    /\ i \in DOMAIN appSockets
    /\ appSockets[i].state = "connecting"
    /\ appSockets' = [appSockets EXCEPT ![i].state = "open"]
    /\ wsConnectingRef' = FALSE
    /\ UNCHANGED <<authVars, chatSocketVars, chatMessageVars, ws, appDeps, appCleanup,
                   wsUnauthorizedRef, rejected>>

\* the error event (when the connection failed) and the close event of
\* notification socket i, which is socks[i] by now: socket.onerror, socket.onclose
AppCloseEvent(i, socks) ==
    /\ appSockets' = socks
    /\ wsUnauthorizedRef' = (wsUnauthorizedRef \/ socks[i].failed)
    /\ wsConnectingRef' = FALSE
    /\ UNCHANGED <<authVars, chatSocketVars, chatMessageVars, ws, appDeps, appCleanup>>

\* the server refuses the handshake of notification socket i
AppHandshakeRejected(i) ==
    /\ i \in DOMAIN appSockets
    /\ appSockets[i].state = "connecting"
    /\ rejected' = rejected \cup {appSockets[i].tok}
    /\ AppCloseEvent(i, [appSockets EXCEPT ![i] = EndedByServer(@, TRUE)])

\* the server closes the open notification socket i, or the network fails
AppConnectionLost(i, failed) ==
    /\ i \in DOMAIN appSockets
    /\ appSockets[i].state = "open"
    /\ UNCHANGED rejected
    /\ AppCloseEvent(i, [appSockets EXCEPT ![i] = EndedByServer(@, failed)])

\* the close the client asked for completes
AppCloseCompletes(i) ==
    /\ i \in DOMAIN appSockets
    /\ appSockets[i].state = "closing"
    /\ UNCHANGED rejected
    /\ AppCloseEvent(i, [appSockets EXCEPT ![i].state = "closed"])

\* the time since the server or the network closed a socket of the current
\* session, up to one step past the reconnect delay
Aged(socks) ==
    [i \in DOMAIN socks |->
        IF socks[i].state = "closed" /\ socks[i].closedBy = "server"
           /\ socks[i].tok = session
        THEN [socks[i] EXCEPT !.age = Min(@ + RtStep, ReconnectDelayMs + RtStep)]
        ELSE socks[i]]

\* time passes: a pending effect runs and a due timeout fires before it does
RtTick ==
    /\ EffectsSettled
    /\ \A t \in chatTimers : t.left > 0
    /\ chatTimers # {} \/ Aged(chatSockets) # chatSockets \/ Aged(appSockets) # appSockets
    /\ chatTimers' = {[t EXCEPT !.left = @ - RtStep] : t \in chatTimers}
    /\ chatSockets' = Aged(chatSockets)
    /\ appSockets' = Aged(appSockets)
    /\ UNCHANGED <<authVars, socketRef, isConnected, chatDeps, chatMessageVars, ws,
                   appDeps, appCleanup, wsUnauthorizedRef, wsConnectingRef, rejected>>

\* the cart and the filter pipeline rest while the sockets run
RealtimeOnly ==
    UNCHANGED <<cartVars, catalogVars, storeVars, handlerVars, backendVars, resultVars,
                wireVars, gatewayVars, queryVars, outcomeVars, checkoutVars,
                modalVars, overlapVars>>

RealtimeNext ==
    \/ Login /\ RealtimeOnly
    \/ Logout /\ RealtimeOnly
    \/ ChatEffect /\ RealtimeOnly
    \/ \E i \in 1..MaxChatSockets : ChatSocketOpens(i) /\ RealtimeOnly
    \/ \E i \in 1..MaxChatSockets : ChatHandshakeRejected(i) /\ RealtimeOnly
    \/ \E i \in 1..MaxChatSockets : ChatConnectionLost(i) /\ RealtimeOnly
    \/ \E i \in 1..MaxChatSockets : ChatCloseCompletes(i) /\ RealtimeOnly
    \/ \E t \in chatTimers : ChatTimerFires(t) /\ RealtimeOnly
    \/ AppEffect /\ RealtimeOnly
    \/ \E i \in 1..MaxAppSockets : AppSocketOpens(i) /\ RealtimeOnly
    \/ \E i \in 1..MaxAppSockets : AppHandshakeRejected(i) /\ RealtimeOnly
    \/ \E i \in 1..MaxAppSockets, failed \in BOOLEAN : AppConnectionLost(i, failed) /\ RealtimeOnly
    \/ \E i \in 1..MaxAppSockets : AppCloseCompletes(i) /\ RealtimeOnly
    \/ RtTick /\ RealtimeOnly

\* the chat widget alone, its session and its socket undisturbed
ChatNext ==
    \/ Login /\ RealtimeOnly
    \/ Logout /\ RealtimeOnly
    \/ ChatEffect /\ RealtimeOnly
    \/ \E i \in 1..MaxChatSockets : ChatSocketOpens(i) /\ RealtimeOnly
    \/ \E f \in fetches : HistoryServed(f) /\ RealtimeOnly
    \/ \E f \in fetches : HistoryResolves(f) /\ RealtimeOnly
    \/ \E m \in Postable : ServerPost(m) /\ RealtimeOnly
    \/ \E i \in 1..MaxChatSockets : FrameArrives(i) /\ RealtimeOnly

-----------------------------------------------------------------------------
(* Properties of the realtime sockets *)

SocketsOf(socks) == {socks[i] : i \in DOMAIN socks}

\* C6: history and realtime frames are merged without duplication and without
\* reordering, whichever arrives first: once the history fetch has resolved
\* and no frame is in flight, the list holds every message the client was
\* given, each once, in timestamp order.
C6_ChatMerge ==
    (/\ fetches = {}
     /\ delivered # {}
     /\ \A i \in DOMAIN chatSockets : chatSockets[i].inbox = <<>>)
    => messages = HistoryOf(delivered)

\* the sockets of one manager: after an unplanned close, while the session of
\* the socket is still the current one, no reconnect is made before the delay
\* has passed and exactly one has been made once it has
ReconnectsOnce(socks) ==
    \A s \in SocketsOf(socks) :
        (s.state = "closed" /\ s.closedBy = "server" /\ s.tok = session) =>
            /\ s.age < ReconnectDelayMs => s.retries = 0
            /\ s.age > ReconnectDelayMs => s.retries = 1

\* C7: an unplanned close of a realtime socket while the session remains valid
\* triggers exactly one reconnect attempt, made after the 3-second delay.
C7_ReconnectOnce == ReconnectsOnce(chatSockets) /\ ReconnectsOnce(appSockets)

C9_AuthRejectionSuspends ==
    /\ \A s \in SocketsOf(chatSockets) \cup SocketsOf(appSockets) :
          ~(s.auto /\ s.afterReject)
    /\ (rejected # {} /\ session # 0 /\ session \notin rejected /\ appDeps[1] = session)
          => \E s \in SocketsOf(appSockets) : s.tok = session

LiveSockets(socks) == {i \in DOMAIN socks : Live(socks[i])}

\* C10: neither manager ever holds two sockets that are open or connecting,
\* so no two such sockets of one session coexist.
C10_OneLiveSocket ==
    /\ Cardinality(LiveSockets(chatSockets)) <= 1
    /\ Cardinality(LiveSockets(appSockets)) <= 1

\* a reconnect timeout replaced the socket of a later session: the replaced
\* socket is closing while the new one connects
C10_Witness ==
    \E i, j \in DOMAIN chatSockets :
        /\ chatSockets[i].state = "closing"
        /\ chatSockets[j].state = "connecting"
        /\ chatSockets[j].auto

\* C31: connectWebSocket disarms the close handler of the socket it holds and
\* closes it before it creates the next one, and stores the new socket in
\* socketRef: the reference always designates the newest socket, every older
\* socket is disarmed and neither connecting nor open, and the close of a
\* socket that was replaced or cleaned up sets no reconnect timeout.
C31_ReplacedSocketDisarmed ==
    /\ [](/\ socketRef = Len(chatSockets)
          /\ \A i \in 1..(Len(chatSockets) - 1) :
                ~chatSockets[i].armed /\ ~Live(chatSockets[i]))
    /\ [][\A i \in DOMAIN chatSockets :
            (chatSockets[i].closedBy = "client" /\ chatSockets[i].state = "closing"
             /\ chatSockets'[i].state = "closed")
                => chatTimers' = chatTimers /\ isConnected' = isConnected
        ]_<<realtimeVars>>

\* a reconnect replaced a socket that was still connecting or open, and the
\* close of the replaced socket has completed with no timeout pending
C31_Witness ==
    \E i \in DOMAIN chatSockets :
        /\ i < socketRef
        /\ chatSockets[i].closedBy = "client" /\ chatSockets[i].state = "closed"
        /\ chatSockets[socketRef].auto
        /\ Live(chatSockets[socketRef])
        /\ chatTimers = {}

\* C34: once the session is gone and the widget's effect has run its cleanup
\* for the logout, no chat socket is created: a reconnect timeout set by an
\* unplanned close before the logout opens none.
C34_NoConnectAfterLogout ==
    [][(session = 0 /\ chatDeps = 0) => Len(chatSockets') <= Len(chatSockets)
      ]_<<realtimeVars>>

\* C38: while the widget is shown for a session and its effect has run, the
\* connected flag is set only if the socket the widget holds is open (the
\* send controls are enabled by the flag, so a send then meets an open socket).
C38_ConnectedMeansOpen ==
    (session # 0 /\ chatDeps = session /\ isConnected) =>
        (socketRef # 0 /\ chatSockets[socketRef].state = "open")

\* C37: while the token stays the one the notification socket was opened
\* with, and no socket saw an error or a close from the server, the client
\* has not closed that socket itself.
C37_AppSocketNotClosedByClient ==
    (\A j \in DOMAIN appSockets : appSockets[j].closedBy # "server") =>
        \A i \in DOMAIN appSockets :
            appSockets[i].tok = session => appSockets[i].closedBy # "client"

\* the page parameter of a query string
PageOf(query) == query[1][2]

\* a step changed the category, price-range, rating, sort or letter filter
FilterChanged ==
    <<selectedCategories, priceRange, minRating, sortBy, selectedLetter>>'
        # <<selectedCategories, priceRange, minRating, sortBy, selectedLetter>>

C18_SearchChangeResetsPage ==
    [][searchQuery' # searchQuery =>
          /\ currentPage' = 1
          /\ \A t \in catalogTimers' : t.payload.page = Some(1)]_catalogVars

\* the filter state handleClearFilters leaves
AtDefaults ==
    /\ selectedCategories = <<>> /\ priceRange = DefaultPriceRange /\ minRating = 0
    /\ sortBy = "newest" /\ selectedLetter = "" /\ currentPage = 1

\* C19: once the filters were cleared to their defaults (no categories, price
\* range 0..500000, minimum rating 0, sort newest, page 1) and the timeouts
\* have fired, the query sent is the one of the defaults: it carries no
\* min_rating parameter, also when a rating filter was active before.
C19_ClearFiltersQuery ==
    (QuietPipeline /\ AtDefaults) =>
        lastQuery = QueryOfState(<<>>, DefaultPriceRange, 0, "newest", searchQuery, 1)

-----------------------------------------------------------------------------
(* AppContent.handleAddToCart over the cart provider: the error fetchAPI    *)
(* builds from a rejection, and the toast the handler shows for it.         *)
(* Texts are sequences of words.                                            *)

\* a JSON value of an error body: a string, or an object { code, message }
JsValue(t, words) == [t |-> t, words |-> words]

\* String(v), as the Error constructor applies it to its message argument
StringOf(v) == IF v.t = "object" THEN <<"[object", "Object]">> ELSE v.words

\* the answers that end cartApi.addToCart / updateCart in an exception: a
\* status outside 2xx with the body { error: { code, message } }, { message },
\* { error: "..." } or no JSON at all, and status 0 for a fetch that rejects
ErrorAnswer(status, error, message) == [status |-> status, error |-> error, message |-> message]

\* the backend rejects the request for stock exhaustion, in either envelope
StockAnswers ==
    {ErrorAnswer(400, Some(JsValue("object", <<"Insufficient", "stock">>)), Undefined),
     ErrorAnswer(400, Undefined, Some(JsValue("string", <<"Insufficient", "stock">>))),
     ErrorAnswer(409, Undefined, Some(JsValue("string", <<"insufficient", "stock", "for", "book">>)))}

ErrorAnswers ==
    StockAnswers \cup
    {ErrorAnswer(404, Some(JsValue("object", <<"Book", "not", "found">>)), Undefined),
     ErrorAnswer(500, Undefined, Undefined),
     ErrorAnswer(0, Undefined, Undefined)}

\* response.statusText
StatusText(status) ==
    CASE status = 400 -> "Bad Request" [] status = 404 -> "Not Found"
      [] status = 409 -> "Conflict" [] status = 500 -> "Internal Server Error"
      [] OTHER -> ""

\* fetchAPI on a status outside 2xx: new ApiError(status, statusText,
\* data?.error || data?.message || 'An error occurred'); a rejected fetch
\* throws an error that is no ApiError
FetchAPIError(answer) ==
    [isApiError |-> answer.status # 0,
     status |-> answer.status,
     statusText |-> StatusText(answer.status),
     message |-> IF answer.status = 0 THEN <<"Failed", "to", "fetch">>
                 ELSE IF answer.error # Undefined THEN StringOf(The(answer.error))
                 ELSE IF answer.message # Undefined THEN StringOf(The(answer.message))
                 ELSE <<"An", "error", "occurred">>]

\* String.prototype.toLowerCase, word by word
ToLowerCase(words) ==
    [i \in DOMAIN words |->
        CASE words[i] = "Insufficient" -> "insufficient"
          [] words[i] = "Book" -> "book"
          [] words[i] = "[object" -> "[object"
          [] words[i] = "Object]" -> "object]"
          [] words[i] = "An" -> "an"
          [] words[i] = "Failed" -> "failed"
          [] OTHER -> words[i]]

\* String.prototype.includes for texts that are sequences of words
Includes(words, needle) ==
    \E i \in 0..(Len(words) - Len(needle)) :
        \A j \in 1..Len(needle) : words[i + j] = needle[j]

\* error instanceof ApiError && String(error.message).toLowerCase().includes('insufficient stock')
IsInsufficientStock(err) ==
    err.isApiError /\ Includes(ToLowerCase(err.message), <<"insufficient", "stock">>)

Handled(n, empty, answer, err) ==
    [n |-> n, empty |-> empty, answer |-> answer, err |-> err,
     recognized |-> IsInsufficientStock(err),
     toast |-> IF IsInsufficientStock(err) THEN "out of stock" ELSE "try again"]

\* AppContent with no toast shown and no add handled yet
HandlerInit ==
    /\ toast = Undefined
    /\ handled = LET none == ErrorAnswer(200, Undefined, Undefined)
                 IN Handled(0, FALSE, none, FetchAPIError(none))

\* handleAddToCart(bookId) of a signed-in user, up to the await in addToCart
handleAddToCart(bookId) ==
    /\ AddToCart(bookId)
    /\ UNCHANGED <<toast, handled>>

\* the backend rejects the request of addToCart, or the request fails:
\* fetchAPI throws, addToCart logs and rethrows, and the catch of
\* handleAddToCart logs the error and shows a toast
AddToCartThrows(k, answer) ==
    /\ ops[k].pc = "mutReq"
    /\ ops[k].call = "add"
    /\ ops' = RemoveAt(ops, k)
    /\ scen' = ScenOther
    /\ handled' = Handled(handled.n + 1, cartItems = <<>>, answer, FetchAPIError(answer))
    /\ toast' = Some(handled'.toast)
    /\ UNCHANGED <<token, cartItems, loading, serverCart, nextLineId, issued,
                   refreshSeq, lastCommit>>

\* the backend accepts the request of addToCart, which goes on to refreshCart
AddToCartAccepted(k) ==
    /\ ops[k].call = "add"
    /\ ServerAccepts(serverCart, ops[k])
    /\ MutationReturns(k)
    /\ UNCHANGED <<toast, handled>>

\* a GET /cart returns; after the refresh of an addToCart the handler shows
\* its success toast
HandlerRefreshReturns(k) ==
    /\ RefreshReturns(k)
    /\ toast' = IF ops[k].call = "add" THEN Some("added") ELSE toast
    /\ UNCHANGED handled

\* the catalog, the sockets and the auth store rest
HandlerOnly ==
    UNCHANGED <<catalogVars, realtimeVars, storeVars, backendVars, resultVars,
                wireVars, gatewayVars, queryVars, outcomeVars, checkoutVars,
                modalVars, overlapVars>>

HandlerNext ==
    \/ \E b \in Books : handleAddToCart(b) /\ HandlerOnly
    \/ \E k \in 1..Len(ops) : \E a \in ErrorAnswers : AddToCartThrows(k, a) /\ HandlerOnly
    \/ \E k \in 1..Len(ops) : AddToCartAccepted(k) /\ HandlerOnly
    \/ \E k \in 1..Len(ops) : ServerGet(k) /\ UNCHANGED <<toast, handled>> /\ HandlerOnly
    \/ \E k \in 1..Len(ops) : HandlerRefreshReturns(k) /\ HandlerOnly

\* C16: when handleAddToCart was called on an empty cart and the backend
\* rejected the add for stock exhaustion, the failure was recognized as
\* insufficient stock and the out-of-stock toast was shown (the handler
\* catches every exception, and the local cart is left as it was).
C16_InsufficientStockRecognized ==
    (handled.n > 0 /\ handled.empty /\ handled.answer \in StockAnswers)
        => handled.recognized /\ handled.toast = "out of stock"

\* C20: for the rows of every GET /cart response, the body { cart: { items } }
\* and the body { items } normalize to the same local list, the rows
\* themselves, and a body with neither normalizes to the empty list.
C20_EnvelopeTolerance ==
    \A k \in DOMAIN ops :
        (ops[k].pc = "getResp" /\ ops[k].res = "ok") =>
            /\ NormalizeCart(CartResponse("nested", ops[k].snap))
                  = NormalizeCart(CartResponse("flat", ops[k].snap))
            /\ NormalizeCart(CartResponse("flat", ops[k].snap)) = ops[k].snap
            /\ NormalizeCart(CartResponse("neither", ops[k].snap)) = <<>>

\* refreshCart has set a non-empty local list from a nested body
C20_Witness ==
    envelope = "nested" /\ lastCommit > 0 /\ cartItems # <<>> /\ cartItems = serverCart

\* C25: the error fetchAPI throws for an answer with a status outside 2xx is
\* an ApiError with the status and the status text of the answer, and its
\* message is the message of the body's error object when the body has one,
\* else the body's top-level message when it has one, else 'An error
\* occurred' (so also for a body that is no JSON).
C25_ApiErrorMessage ==
    (handled.n > 0 /\ handled.answer.status # 0) =>
        /\ handled.err.isApiError
        /\ handled.err.status = handled.answer.status
        /\ handled.err.statusText = StatusText(handled.answer.status)
        /\ handled.err.message =
              IF handled.answer.error # Undefined THEN The(handled.answer.error).words
              ELSE IF handled.answer.message # Undefined THEN The(handled.answer.message).words
              ELSE <<"An", "error", "occurred">>

-----------------------------------------------------------------------------
(* The cart mutations of the provider with the errors they throw: addToCart, *)
(* updateQuantity and removeFromCart called directly, the gateway accepting  *)
(* or failing each request                                                    *)

\* the observer: the number of mutations that threw, the call that threw last,
\* the error fetchAPI threw in it and the error its caller received
Thrown(n, call, gateway, caller) ==
    [n |-> n, call |-> call, gateway |-> gateway, caller |-> caller]

OutcomeInit ==
    LET none == FetchAPIError(ErrorAnswer(200, Undefined, Undefined))
    IN thrown = Thrown(0, "none", none, none)

\* a catch that throws an error of its own
Rethrow_Wrapped(error) ==
    [error EXCEPT !.isApiError = FALSE, !.message = <<"Cart", "update", "failed">>]

\* catch (error) { console.error(..., error); throw error; }
Rethrow(error) == error

\* the gateway accepts the mutation of ops[k]: the call goes on to refreshCart
MutationAccepted(k) ==
    /\ k \in DOMAIN ops
    /\ ServerAccepts(serverCart, ops[k])
    /\ MutationReturns(k)
    /\ UNCHANGED thrown

\* the gateway answers the mutation of ops[k] with an error status, or the
\* request fails: fetchAPI throws, the provider's catch logs and rethrows
MutationThrows(k, answer) ==
    /\ k \in DOMAIN ops
    /\ ops[k].pc = "mutReq"
    /\ ops' = RemoveAt(ops, k)
    /\ scen' = ScenOther
    /\ thrown' = Thrown(thrown.n + 1, ops[k].call, FetchAPIError(answer),
                        Rethrow(FetchAPIError(answer)))
    /\ UNCHANGED <<token, cartItems, loading, serverCart, nextLineId, issued,
                   refreshSeq, lastCommit>>

\* the catalog, the sockets, the auth store and the add handler rest
MutationOnly ==
    UNCHANGED <<catalogVars, realtimeVars, storeVars, handlerVars, backendVars, resultVars,
                wireVars, gatewayVars, queryVars, checkoutVars, modalVars, overlapVars>>

MutationNext ==
    \/ \E b \in Books : AddToCart(b) /\ UNCHANGED thrown /\ MutationOnly
    \/ \E i \in 1..Len(cartItems) : \E q \in -1..1 :
          UpdateQuantity(cartItems[i].id, q) /\ UNCHANGED thrown /\ MutationOnly
    \/ \E i \in 1..Len(cartItems) :
          RemoveFromCart(cartItems[i].id) /\ UNCHANGED thrown /\ MutationOnly
    \/ \E k \in 1..Len(ops) : MutationAccepted(k) /\ MutationOnly
    \/ \E k \in 1..Len(ops) : \E a \in ErrorAnswers : MutationThrows(k, a) /\ MutationOnly
    \/ \E k \in 1..Len(ops) : ServerGet(k) /\ UNCHANGED thrown /\ MutationOnly
    \/ \E k \in 1..Len(ops) : RefreshReturns(k) /\ UNCHANGED thrown /\ MutationOnly

\* C30: a step in which the gateway accepts a cart mutation issues a GET /cart
\* for the same call, which stays unresolved; an add, update or remove call
\* ends without throwing only in the step in which the response of its GET
\* /cart is handled; a step in which a mutation fails issues no GET /cart,
\* leaves the local cart as it is, ends the call, and the caller receives the
\* error fetchAPI threw.
C30_RefreshAfterMutationOnly ==
    [][/\ \A k \in DOMAIN ops :
            (ops[k].pc = "mutReq" /\ Len(ops') = Len(ops) /\ ops'[k] # ops[k]) =>
                /\ ops'[k].pc = "getReq"
                /\ refreshSeq' = refreshSeq + 1
                /\ ops'[k].seq = refreshSeq'
       /\ serverCart' # serverCart => refreshSeq' = refreshSeq + 1
       /\ (Len(ops') < Len(ops) /\ thrown' = thrown) =>
             \E k \in DOMAIN ops : ops' = RemoveAt(ops, k) /\ ops[k].pc = "getResp"
       /\ thrown'.n > thrown.n =>
             /\ refreshSeq' = refreshSeq
             /\ \A k \in DOMAIN ops' : ops'[k].pc = "getReq" => \E j \in DOMAIN ops : ops'[k] = ops[j]
             /\ cartItems' = cartItems
             /\ Len(ops') = Len(ops) - 1
             /\ thrown'.caller = thrown'.gateway
             /\ thrown'.caller.isApiError <=> thrown'.gateway.status # 0
      ]_<<cartVars, outcomeVars>>

\* a mutation was accepted and its refresh committed, and an update threw
C30_Witness ==
    /\ thrown.n > 0 /\ thrown.call = "update"
    /\ thrown.caller.status = 400
    /\ lastCommit > 1
    /\ cartItems # <<>>

-----------------------------------------------------------------------------
(* The cart operations called from a render without a session: each throws  *)
(* before its first request                                                  *)

\* new Error(text): no ApiError, no status
PlainError(words) ==
    [isApiError |-> FALSE, status |-> 0, statusText |-> "", message |-> words]

MustBeLoggedIn == PlainError(<<"Must", "be", "logged", "in">>)

\* no request was sent, fetchAPI threw nothing
NotSent == FetchAPIError(ErrorAnswer(200, Undefined, Undefined))

\* the renders without a complete session: no user and no token, a user
\* without a token, a token without a user (the restore of an unvalidated
\* localStorage pair leaves such a store)
Session(user, tok) == [user |-> user, token |-> tok]
Incomplete == {Session(FALSE, FALSE), Session(TRUE, FALSE), Session(FALSE, TRUE)}

\* a guard that looks at the token only, in each operation
Guards_TokenOnly(call, s) == ~s.token

\* if (!user || !token) throw ... in addToCart; if (!token) throw ... in
\* updateQuantity and removeFromCart
Guards(call, s) == IF call = "add" THEN ~s.user \/ ~s.token ELSE ~s.token

\* addToCart(bookId), updateQuantity(itemId, quantity) or removeFromCart(itemId)
\* called from a render whose session is s: the guard throws, or the
\* operation goes on to its request
GuardedCall(op, s) ==
    /\ token = 0
    /\ issued < MaxCalls
    /\ issued' = issued + 1
    /\ IF Guards(op.call, s)
       THEN /\ thrown' = Thrown(thrown.n + 1, op.call, NotSent, MustBeLoggedIn)
            /\ UNCHANGED ops
       ELSE /\ ops' = Append(ops, op)
            /\ UNCHANGED thrown
    /\ scen' = ScenOther
    /\ UNCHANGED <<token, cartItems, loading, serverCart, nextLineId, refreshSeq, lastCommit>>

\* the lines an operation may be called for: those on screen and those stored
KnownLines == LineIds(cartItems) \cup LineIds(serverCart)

GuardNext ==
    \/ SignIn /\ UNCHANGED thrown /\ MutationOnly
    \/ SignOut /\ UNCHANGED thrown /\ MutationOnly
    \/ \E b \in Books : AddToCart(b) /\ UNCHANGED thrown /\ MutationOnly
    \/ \E b \in Books : \E s \in Incomplete :
          GuardedCall(AddToCartOp(b), s) /\ MutationOnly
    \/ \E id \in KnownLines : \E q \in 0..1 : \E s \in {r \in Incomplete : ~r.token} :
          GuardedCall(UpdateQuantityOp("direct", id, q), s) /\ MutationOnly
    \/ \E id \in KnownLines : \E s \in {r \in Incomplete : ~r.token} :
          GuardedCall(Op("remove", "remove", "direct", 0, id, 0, "mutReq"), s) /\ MutationOnly
    \/ \E k \in 1..Len(ops) : MutationAccepted(k) /\ MutationOnly
    \/ \E k \in 1..Len(ops) : ServerGet(k) /\ UNCHANGED thrown /\ MutationOnly
    \/ \E k \in 1..Len(ops) : RefreshReturns(k) /\ UNCHANGED thrown /\ MutationOnly

\* C32: addToCart called without a user or without a token, and updateQuantity
\* and removeFromCart called without a token, throw the error 'Must be logged
\* in': the call sends no request (none is added to those in flight, the
\* backend's cart and the count of GET /cart stay as they are) and the local
\* cart is left unchanged.
C32_NoSessionNoRequest ==
    [][(token = 0 /\ token' = 0 /\ issued' > issued) =>
          /\ thrown'.n = thrown.n + 1
          /\ thrown'.caller = MustBeLoggedIn
          /\ thrown'.gateway = NotSent
          /\ ops' = ops
          /\ cartItems' = cartItems
          /\ serverCart' = serverCart
          /\ refreshSeq' = refreshSeq
      ]_<<cartVars, outcomeVars>>

\* each of the three operations threw without a session, an update while the
\* local cart still showed a line
C32_Witness ==
    /\ token = 0
    /\ thrown.n > 0 /\ thrown.call = "update" /\ thrown.caller = MustBeLoggedIn
    /\ cartItems # <<>>

-----------------------------------------------------------------------------
(* CartDrawer.handleCheckout over the cart provider: the order is created   *)
(* from the backend's cart, then the local cart is refreshed                *)

\* user.address of the user a login or a restored session brings
Addresses == {"", "12 Tran Phu"}

CheckoutOp == Op("checkout", "checkout", "checkout", 0, NoLine, 0, "mutReq")

\* CartDrawer state isProcessing: true from the request to the finally
isProcessing == \E k \in DOMAIN ops : ops[k].call = "checkout"

\* the guards of handleCheckout without the one on the address
CheckoutRefusal_AnyAddress(hasSession, items, shippingAddress) ==
    IF ~hasSession THEN "login"
    ELSE IF items = <<>> THEN "empty"
    ELSE "none"

\* the alert handleCheckout returns after: no user or token, an empty cart,
\* no shipping address; "none" when it goes on to the request
CheckoutRefusal(hasSession, items, shippingAddress) ==
    IF ~hasSession THEN "login"
    ELSE IF items = <<>> THEN "empty"
    ELSE IF shippingAddress = "" THEN "address"
    ELSE "none"

\* the click on the order button, which the drawer renders for a cart that
\* is not loading and not empty and disables while a checkout is processed
handleCheckout ==
    /\ ~loading /\ cartItems # <<>>
    /\ ~isProcessing
    /\ issued < MaxCalls
    /\ issued' = issued + 1
    /\ LET refusal == CheckoutRefusal(token # 0, cartItems, address) IN
       /\ notice' = refusal
       /\ ops' = IF refusal = "none" THEN Append(ops, CheckoutOp) ELSE ops
    /\ scen' = ScenOther
    /\ UNCHANGED <<token, cartItems, loading, serverCart, nextLineId, refreshSeq,
                   lastCommit, address>>

\* POST /orders/from-cart: the order is created from the user's cart and the
\* cart is emptied
ServerCheckout(cart) == <<>>

\* the backend accepts the checkout of ops[k]: the success alert, then
\* await refreshCart()
CheckoutAccepted(k) ==
    /\ ops[k].call = "checkout" /\ ops[k].pc = "mutReq"
    /\ serverCart' = ServerCheckout(serverCart)
    /\ ops' = [ops EXCEPT ![k] = StartRefresh(ops[k])]
    /\ refreshSeq' = refreshSeq + 1
    /\ loading' = TRUE
    /\ notice' = "success"
    /\ UNCHANGED <<token, cartItems, nextLineId, issued, lastCommit, scen, address>>

\* the backend rejects the checkout of ops[k] or the request fails: the catch
\* shows the failure alert
CheckoutFails(k) ==
    /\ ops[k].call = "checkout" /\ ops[k].pc = "mutReq"
    /\ ops' = RemoveAt(ops, k)
    /\ notice' = "failed"
    /\ UNCHANGED <<token, cartItems, loading, serverCart, nextLineId, issued,
                   refreshSeq, lastCommit, scen, address>>

\* the drawer at first: signed out, or a restored session with its user
CheckoutStart ==
    /\ notice = "none"
    /\ address \in (IF token = 0 THEN {""} ELSE Addresses)

\* the catalog, the sockets, the auth store and the add handler rest
CheckoutOnly ==
    UNCHANGED <<catalogVars, realtimeVars, storeVars, handlerVars, backendVars, resultVars,
                wireVars, gatewayVars, queryVars, outcomeVars, modalVars, overlapVars>>

CheckoutNext ==
    \/ \E a \in Addresses : SignIn /\ address' = a /\ UNCHANGED notice /\ CheckoutOnly
    \/ SignOut /\ address' = "" /\ UNCHANGED notice /\ CheckoutOnly
    \/ handleCheckout /\ CheckoutOnly
    \/ \E k \in 1..Len(ops) : CheckoutAccepted(k) /\ CheckoutOnly
    \/ \E k \in 1..Len(ops) : CheckoutFails(k) /\ CheckoutOnly
    \/ \E k \in 1..Len(ops) : ServerGet(k) /\ UNCHANGED checkoutVars /\ CheckoutOnly
    \/ \E k \in 1..Len(ops) : RefreshReturns(k) /\ UNCHANGED checkoutVars /\ CheckoutOnly

\* C33: handleCheckout sends POST /orders/from-cart only from a render with a
\* session, a local cart that is not empty and a shipping address that is not
\* empty; the step in which the backend accepts it issues the GET /cart of
\* refreshCart for the same call and leaves the local list to that refresh,
\* whose response, once set, shows the emptied cart; the step in which the
\* checkout fails issues no request and leaves the local cart unchanged.
C33_CheckoutGuardsAndRefresh ==
    [][/\ (Len(ops') = Len(ops) + 1 /\ ops'[Len(ops')].call = "checkout") =>
             token # 0 /\ cartItems # <<>> /\ address # ""
       /\ \A k \in DOMAIN ops :
             (ops[k].call = "checkout" /\ ops[k].pc = "mutReq") =>
                 /\ (Len(ops') = Len(ops) /\ ops'[k] # ops[k]) =>
                        /\ ops'[k].pc = "getReq" /\ ops'[k].seq = refreshSeq + 1
                        /\ refreshSeq' = refreshSeq + 1
                        /\ serverCart' = <<>>
                        /\ cartItems' = cartItems
                 /\ ops' = RemoveAt(ops, k) =>
                        /\ cartItems' = cartItems
                        /\ refreshSeq' = refreshSeq /\ serverCart' = serverCart
       /\ \A k \in DOMAIN ops :
             (ops[k].call = "checkout" /\ ops[k].pc = "getResp"
              /\ ops' = RemoveAt(ops, k) /\ lastCommit' = ops[k].seq) =>
                 cartItems' = <<>>
      ]_<<cartVars, checkoutVars>>

\* a checkout was accepted for a cart that showed a line, and its refresh
\* has emptied the local cart
C33_Witness ==
    /\ notice = "success" /\ ~isProcessing
    /\ lastCommit = refreshSeq /\ lastCommit > 1
    /\ cartItems = <<>> /\ serverCart = <<>> /\ token # 0

-----------------------------------------------------------------------------
(* The remembered add: AppContent's pendingCartAction and showLoginModal,   *)
(* and the sign-in LoginModal.handleEmailAuth makes with the onSuccess prop *)
(* of the render it was submitted in                                        *)

\* what a submitted handleEmailAuth holds on to: the pendingCartAction its
\* onSuccess (handleLoginSuccess) closed over, and the session the addToCart
\* of that render closed over
LoginClosure(pending, s) == [pending |-> pending, session |-> s]

\* handleAddToCart(bookId) of a visitor: remember the book, open the modal
RequireLogin(bookId) ==
    /\ token = 0
    /\ ~showLoginModal
    /\ pendingCartAction' = bookId
    /\ showLoginModal' = TRUE
    /\ UNCHANGED <<cartVars, handlerVars, loginFlight>>

\* the header's onLoginClick
onLoginClick ==
    /\ token = 0
    /\ ~showLoginModal
    /\ showLoginModal' = TRUE
    /\ UNCHANGED <<cartVars, handlerVars, pendingCartAction, loginFlight>>

\* LoginModal's onClose prop, from its close button
onClose ==
    /\ showLoginModal
    /\ showLoginModal' = FALSE
    /\ pendingCartAction' = 0
    /\ UNCHANGED <<cartVars, handlerVars, loginFlight>>

\* handleEmailAuth up to its await of signInWithEmail; the submit button is
\* disabled while a call is in flight
handleEmailAuth ==
    /\ showLoginModal
    /\ token = 0
    /\ loginFlight = {}
    /\ loginFlight' = {LoginClosure(pendingCartAction, Session(FALSE, FALSE))}
    /\ UNCHANGED <<cartVars, handlerVars, pendingCartAction, showLoginModal>>

\* signInWithEmail returned an error: the modal shows it and stays as it is
LoginModalRefused(c) ==
    /\ c \in loginFlight
    /\ loginFlight' = loginFlight \ {c}
    /\ UNCHANGED <<cartVars, handlerVars, pendingCartAction, showLoginModal>>

\* signInWithEmail stored the session and returned no error: the cart
\* provider's effect refreshes for the new session, and handleEmailAuth goes
\* on with the onSuccess it was submitted with (handleLoginSuccess, whose
\* addToCart throws or sends its request), then with onClose
LoginModalSucceeds(c) ==
    LET refused == Guards("add", c.session)
        sends   == c.pending # 0 /\ ~refused
        caught  == c.pending # 0 /\ refused
        none    == ErrorAnswer(200, Undefined, Undefined)
    IN
    /\ c \in loginFlight
    /\ token = 0
    /\ issued < MaxCalls
    /\ loginFlight' = loginFlight \ {c}
    /\ token' = 1
    /\ issued' = issued + 1
    /\ refreshSeq' = refreshSeq + 1
    /\ loading' = TRUE
    /\ ops' = Append(ops, EffectRefresh(refreshSeq + 1))
                 \o (IF sends THEN <<AddToCartOp(c.pending)>> ELSE <<>>)
    /\ scen' = ScenOther
    /\ handled' = IF caught
                  THEN Handled(handled.n + 1, cartItems = <<>>, none, MustBeLoggedIn)
                  ELSE handled
    /\ toast' = IF caught THEN Some(handled'.toast) ELSE toast
    /\ pendingCartAction' = 0
    /\ showLoginModal' = FALSE
    /\ UNCHANGED <<cartItems, serverCart, nextLineId, lastCommit>>

PendingOnly ==
    UNCHANGED <<catalogVars, realtimeVars, storeVars, backendVars, resultVars,
                wireVars, gatewayVars, queryVars, outcomeVars, checkoutVars,
                overlapVars>>

PendingNext ==
    \/ \E b \in Books : RequireLogin(b) /\ PendingOnly
    \/ onLoginClick /\ PendingOnly
    \/ onClose /\ PendingOnly
    \/ handleEmailAuth /\ PendingOnly
    \/ \E c \in loginFlight : LoginModalRefused(c) /\ PendingOnly
    \/ \E c \in loginFlight : LoginModalSucceeds(c) /\ PendingOnly
    \/ \E b \in Books : handleAddToCart(b) /\ UNCHANGED modalVars /\ PendingOnly
    \/ \E k \in DOMAIN ops : AddToCartAccepted(k) /\ UNCHANGED modalVars /\ PendingOnly
    \/ \E k \in DOMAIN ops : ServerGet(k) /\ UNCHANGED <<handlerVars, modalVars, overlapVars>> /\ PendingOnly
    \/ \E k \in DOMAIN ops : HandlerRefreshReturns(k) /\ UNCHANGED modalVars /\ PendingOnly

\* C36: when the login a visitor's add opened succeeds, the remembered book
\* is on its way to the cart with the new session (an add request for it is
\* in flight) and the pending action is cleared; closing the modal without
\* a login clears the pending action and sends nothing
C36_PendingAddAfterLogin ==
    [][/\ (token = 0 /\ token' # 0 /\ pendingCartAction # 0) =>
            /\ \E k \in DOMAIN ops' :
                  /\ ops'[k].call = "add"
                  /\ ops'[k].book = pendingCartAction
                  /\ ops'[k].pc = "mutReq"
            /\ pendingCartAction' = 0
       /\ (showLoginModal /\ ~showLoginModal' /\ token' = 0) =>
            /\ pendingCartAction' = 0
            /\ ops' = ops
            /\ serverCart' = serverCart
      ]_<<cartVars, handlerVars, modalVars>>

-----------------------------------------------------------------------------
(* The auth store: AuthProvider's user and token, the two localStorage      *)
(* entries, and the calls signInWithEmail, signUpWithEmail and signOut      *)

MaxAuthCalls == 3

\* the users and the sessions the gateway answers a login or a registration with
User(id) == [id |-> id]
Users == {User("u1"), User("u2")}
Sessions == {[token |-> "t1", user |-> User("u1")], [token |-> "t2", user |-> User("u2")]}

\* JSON.stringify of a user object
JSONStringify(u) == "{\"id\":\"" \o u.id \o "\"}"

\* JSON.parse of a text: it throws on text that is not JSON, and the JSON
\* text null parses to null (the empty option)
JSONParse(text) ==
    IF \E u \in Users : JSONStringify(u) = text
    THEN [threw |-> FALSE, value |-> {CHOOSE u \in Users : JSONStringify(u) = text}]
    ELSE IF text = "null"
         THEN [threw |-> FALSE, value |-> {}]
         ELSE [threw |-> TRUE, value |-> {}]

\* what localStorage can hold under TOKEN_KEY and USER_KEY when the page loads: nothing,
\* an empty text, a token, a user's JSON, the JSON text null, a broken text
StoredTokens == {{}, {""}, {"t1"}}
StoredUsers == {{}, {""}, {JSONStringify(User("u1"))}, {"null"}, {"{\"id\":"}}

Storage(t, u) == [bookstore_token |-> t, bookstore_user |-> u]

\* localStorage.getItem(key) is truthy: the entry exists and is not empty
Truthy(entry) == entry # {} /\ entry # {""}

AuthResult(n, fn, server, outcome, logged) ==
    [n |-> n, fn |-> fn, server |-> server, outcome |-> outcome, logged |-> logged]

\* AuthProvider as first rendered: useState(null), useState(null), useState(true)
AuthInit ==
    /\ authUser = {}
    /\ authToken = {}
    /\ authLoading = TRUE
    /\ authPhase = "mounting"
    /\ authCalls = <<>>
    /\ authIssued = 0
    /\ authResult = AuthResult(0, "none", "none", "none", FALSE)
    /\ \E t \in StoredTokens : \E u \in StoredUsers : localStorage = Storage(t, u)

\* the mount effect: restore token and user from localStorage
Restore ==
    /\ authPhase = "mounting"
    /\ LET storedToken == localStorage.bookstore_token
           storedUser == localStorage.bookstore_user
       IN IF Truthy(storedToken) /\ Truthy(storedUser)
          THEN LET parsed == JSONParse(The(storedUser)) IN
               IF parsed.threw
               THEN \* the effect throws after setToken: the tree is unmounted
                    /\ authPhase' = "crashed"
                    /\ authResult' = AuthResult(0, "restore", "none", "threw", FALSE)
                    /\ UNCHANGED <<authUser, authToken, authLoading>>
               ELSE /\ authToken' = storedToken
                    /\ authUser' = parsed.value
                    /\ authLoading' = FALSE
                    /\ authPhase' = "ready"
                    /\ authResult' = AuthResult(0, "restore", "none", "ok", FALSE)
          ELSE /\ authLoading' = FALSE
               /\ authPhase' = "ready"
               /\ authResult' = AuthResult(0, "restore", "none", "ok", FALSE)
               /\ UNCHANGED <<authUser, authToken>>
    /\ UNCHANGED <<localStorage, authCalls, authIssued>>

\* signInWithEmail / signUpWithEmail up to await authApi.login / register
LoginCall(fn) ==
    /\ authPhase = "ready"
    /\ authIssued < MaxAuthCalls
    /\ authIssued' = authIssued + 1
    /\ authCalls' = Append(authCalls, fn)
    /\ UNCHANGED <<authUser, authToken, authLoading, authPhase, localStorage, authResult>>

signInWithEmail == LoginCall("signIn")

signUpWithEmail == LoginCall("signUp")

\* the answers of the gateway to a login or a registration: a session, a
\* rejection (ApiError), no answer (fetch rejects), or a 2xx without a JSON
\* body, which fetchAPI returns as null
LoginAnswers == {"ok", "rejected", "network", "empty"}

\* a catch branch that signs the user out when a login fails
LoginFails_SignsOut(n, fn, answer) ==
    /\ authToken' = {}
    /\ authUser' = {}
    /\ localStorage' = Storage({}, {})
    /\ authResult' = AuthResult(n, fn, answer, "error", FALSE)

\* the catch branch of signInWithEmail / signUpWithEmail: return { error }
LoginFails(n, fn, answer) ==
    /\ authResult' = AuthResult(n, fn, answer, "error", FALSE)
    /\ UNCHANGED <<authUser, authToken, localStorage>>

\* the try branch after the await: persist, then activate the session
LoginSucceeds(n, fn, s) ==
    /\ localStorage' = Storage({s.token}, {JSONStringify(s.user)})
    /\ authToken' = {s.token}
    /\ authUser' = {s.user}
    /\ authResult' = AuthResult(n, fn, "ok", "ok", FALSE)

\* signInWithEmail / signUpWithEmail from the end of the await to its return
LoginReturns(k, answer) ==
    /\ authCalls[k] \in {"signIn", "signUp"}
    /\ IF answer = "ok"
       THEN \E s \in Sessions : LoginSucceeds(authResult.n + 1, authCalls[k], s)
       ELSE LoginFails(authResult.n + 1, authCalls[k], answer)
    /\ authCalls' = RemoveAt(authCalls, k)
    /\ UNCHANGED <<authLoading, authPhase, authIssued>>

\* a finally block that clears the session only when the server call did not fail
SignOutFinally_UnlessFailed(n, server) ==
    /\ IF server = "failed"
       THEN UNCHANGED <<localStorage, authToken, authUser>>
       ELSE /\ localStorage' = Storage({}, {})
            /\ authToken' = {}
            /\ authUser' = {}
    /\ authResult' = AuthResult(n, "signOut", server, "void", server = "failed")

\* signOut's catch (console.error) and finally: remove both entries, clear both
SignOutFinally(n, server) ==
    /\ localStorage' = Storage({}, {})
    /\ authToken' = {}
    /\ authUser' = {}
    /\ authResult' = AuthResult(n, "signOut", server, "void", server = "failed")

\* signOut up to await authApi.logout(token); without a token it runs through
signOut ==
    /\ authPhase = "ready"
    /\ authIssued < MaxAuthCalls
    /\ authIssued' = authIssued + 1
    /\ IF authToken # {}
       THEN /\ authCalls' = Append(authCalls, "signOut")
            /\ UNCHANGED <<authUser, authToken, localStorage, authResult>>
       ELSE /\ SignOutFinally(authResult.n + 1, "skipped")
            /\ UNCHANGED authCalls
    /\ UNCHANGED <<authLoading, authPhase>>

\* signOut from the end of the await to its return
SignOutReturns(k, server) ==
    /\ authCalls[k] = "signOut"
    /\ SignOutFinally(authResult.n + 1, server)
    /\ authCalls' = RemoveAt(authCalls, k)
    /\ UNCHANGED <<authLoading, authPhase, authIssued>>

\* the cart, the catalog and the sockets rest while the auth store runs
AuthOnly ==
    UNCHANGED <<cartVars, catalogVars, realtimeVars, handlerVars, backendVars,
                resultVars, wireVars, gatewayVars, queryVars, outcomeVars, checkoutVars,
         modalVars, overlapVars>>

AuthNext ==
    \/ Restore /\ AuthOnly
    \/ signInWithEmail /\ AuthOnly
    \/ signUpWithEmail /\ AuthOnly
    \/ signOut /\ AuthOnly
    \/ \E k \in 1..Len(authCalls) : \E a \in LoginAnswers : LoginReturns(k, a) /\ AuthOnly
    \/ \E k \in 1..Len(authCalls) : \E r \in {"ok", "failed"} : SignOutReturns(k, r) /\ AuthOnly

-----------------------------------------------------------------------------
(* Properties of the auth store, checked under SpecAuth *)

\* a login, a registration or a logout has written the localStorage entries last
WroteStorage ==
    \/ authResult.fn \in {"signIn", "signUp"} /\ authResult.outcome = "ok"
    \/ authResult.fn = "signOut"

\* C12: once restore has run, the token is present in memory exactly when the
\* user is; and the two localStorage entries that a login, a registration or
\* a logout leaves are both present or both absent.
C12_TokenIffUser ==
    /\ authPhase = "ready" => ((authToken # {}) <=> (authUser # {}))
    /\ WroteStorage =>
          ((localStorage.bookstore_token # {}) <=> (localStorage.bookstore_user # {}))

\* C13: when signOut has returned, whether the server call succeeded, failed
\* or was skipped, token and user are null, both localStorage entries are
\* removed, nothing was thrown to the caller, and a server failure was logged.
C13_LogoutAlwaysClears ==
    authResult.fn = "signOut" =>
        /\ authToken = {} /\ authUser = {}
        /\ localStorage = Storage({}, {})
        /\ authResult.outcome = "void"
        /\ authResult.server = "failed" => authResult.logged

\* a signOut whose server call failed has returned
C13_Witness ==
    authResult.fn = "signOut" /\ authResult.server = "failed" /\ authResult.logged

\* C14: the step in which a login or a registration returns after the gateway
\* did not answer with a session returns the error as a value and changes
\* neither token and user in memory nor the two localStorage entries.
C14_FailedLoginMutatesNothing ==
    [][(authResult'.n # authResult.n /\ authResult'.fn \in {"signIn", "signUp"}
            /\ authResult'.server # "ok")
          => /\ authResult'.outcome = "error"
             /\ UNCHANGED <<authUser, authToken, localStorage>>]_storeVars

\* a login has failed while a session was active, and the session is still there
C14_Witness ==
    /\ authResult.fn = "signIn" /\ authResult.outcome = "error"
    /\ authToken # {} /\ authUser # {}
    /\ Truthy(localStorage.bookstore_token) /\ Truthy(localStorage.bookstore_user)

\* the persisted pair is well-formed: a token and the JSON text of a user
WellFormed(storage) ==
    /\ Truthy(storage.bookstore_token)
    /\ Truthy(storage.bookstore_user)
    /\ \E u \in Users : JSONStringify(u) = The(storage.bookstore_user)

\* C15: restore does not throw, and when it has run the session is active
\* exactly when the persisted pair is present and well-formed; otherwise
\* token and user are both absent.
C15_RestoreNeverThrows ==
    authResult.fn = "restore" =>
        /\ authResult.outcome # "threw"
        /\ IF WellFormed(localStorage)
           THEN authToken = localStorage.bookstore_token
                /\ authUser = JSONParse(The(localStorage.bookstore_user)).value
           ELSE authToken = {} /\ authUser = {}

-----------------------------------------------------------------------------
(* buildQueryString applied to the filter states AppContent can hold *)

\* the values of FilterState that the filter handlers can produce
FilterStates ==
    [categories : {<<>>, <<"c1">>, <<"c1", "c2">>},
     minPrice : {0}, maxPrice : {200000, 500000},
     minRating : {0, 4},
     sortBy : {"newest", "price-asc"},
     search : SearchTexts,
     page : 1..MaxPage,
     limit : {ITEMS_PER_PAGE}]

QueryInit ==
    /\ queryParams \in FilterStates
    /\ queryString = NoQuery

\* the queryParams at rest
QueryIdle == queryParams = InitialFilters /\ queryString = NoQuery

\* const queryString = buildQueryString(filters)
BuildQuery ==
    /\ queryString' = BuildQueryString(queryParams)
    /\ UNCHANGED queryParams

\* setFilters of handleFilterChange: the next filter state
SetFilters(next) ==
    /\ queryString # NoQuery
    /\ next # queryParams
    /\ queryParams' = next
    /\ queryString' = NoQuery

QueryOnly ==
    UNCHANGED <<cartVars, catalogVars, realtimeVars, storeVars, handlerVars, backendVars,
                resultVars, wireVars, gatewayVars, outcomeVars, checkoutVars,
                modalVars, overlapVars>>

QueryNext ==
    \/ BuildQuery /\ QueryOnly
    \/ \E next \in FilterStates : SetFilters(next) /\ QueryOnly

\* the values the query holds under a key
ValuesOf(query, key) == {query[i][2] : i \in {j \in DOMAIN query : query[j][1] = key}}

\* C27: the query built from a filter state holds page, limit, min_price and
\* max_price with the values of the state; categories exactly when the state
\* has categories, and then their ids separated by commas; min_rating exactly
\* when the rating is above 0; search exactly when the search text is not
\* empty; no key twice; and the same state always gives the same query.
C27_QueryFollowsFilters ==
    queryString # NoQuery =>
        /\ ValuesOf(queryString, "page") = {queryParams.page}
        /\ ValuesOf(queryString, "limit") = {queryParams.limit}
        /\ ValuesOf(queryString, "min_price") = {queryParams.minPrice}
        /\ ValuesOf(queryString, "max_price") = {queryParams.maxPrice}
        /\ ValuesOf(queryString, "categories") =
              (CASE Len(queryParams.categories) = 0 -> {}
                 [] Len(queryParams.categories) = 1 -> {queryParams.categories[1]}
                 [] OTHER -> {queryParams.categories[1] \o "," \o queryParams.categories[2]})
        /\ ValuesOf(queryString, "min_rating") =
              (IF queryParams.minRating > 0 THEN {queryParams.minRating} ELSE {})
        /\ ValuesOf(queryString, "search") =
              (IF queryParams.search # "" THEN {queryParams.search} ELSE {})
        /\ \A i, j \in DOMAIN queryString : queryString[i][1] = queryString[j][1] => i = j
        /\ queryString = BuildQueryString(queryParams)

\* the query of a state with two categories, no rating and no search text
C27_Witness ==
    /\ queryString # NoQuery
    /\ Len(queryParams.categories) = 2
    /\ queryParams.minRating = 0 /\ queryParams.search = ""
    /\ Len(queryString) = 7

-----------------------------------------------------------------------------
(* The gateway under the auth store: the headers fetchAPI sends with the    *)
(* calls of the signed-in components, and the 401 answers to those calls    *)

MaxGatewayCalls == 2
\* sign-ins and sign-outs started while the gateway is exercised
MaxGatewaySessions == 2

\* the authenticated calls of CartProvider and ProfilePage
ApiCalls == {"getCart", "addToCart", "getProfile", "uploadAvatar", "getOrders", "getPayments"}

\* isMultipart of the options the call passes to fetchAPI
IsMultipart(call) == IF call = "uploadAvatar" THEN Some(TRUE) ELSE Undefined

Headers(contentType, authorization) ==
    [ContentType |-> contentType, Authorization |-> authorization]

\* a getHeaders that puts the supplied token in the header whatever it is
getHeaders_AlwaysBearer(tok, isMultipart) ==
    Headers(IF isMultipart = Some(TRUE) THEN Undefined ELSE Some("application/json"),
            Some("Bearer " \o (IF tok = Undefined THEN "undefined" ELSE The(tok))))

\* getHeaders(token?, isMultipart = false)
getHeaders(tok, isMultipart) ==
    Headers(IF isMultipart = Some(TRUE) THEN Undefined ELSE Some("application/json"),
            IF tok # Undefined /\ The(tok) # "" THEN Some("Bearer " \o The(tok)) ELSE Undefined)

\* { ...getHeaders(token, isMultipart), ...(fetchOptions.headers || {}) }
MergeHeaders(base, extra) ==
    IF extra = Undefined THEN base
    ELSE Headers(IF The(extra).ContentType # Undefined
                 THEN The(extra).ContentType ELSE base.ContentType,
                 IF The(extra).Authorization # Undefined
                 THEN The(extra).Authorization ELSE base.Authorization)

\* the request fetchAPI sends for a call: no call of services/api.ts passes headers
Request(call, tok) ==
    [call |-> call, token |-> tok, isMultipart |-> IsMultipart(call),
     headers |-> MergeHeaders(getHeaders(tok, IsMultipart(call)), Undefined)]

GatewayInit ==
    /\ gwCalls = {}
    /\ lastRequest = [call |-> "none", token |-> Undefined, isMultipart |-> Undefined,
                      headers |-> Headers(Undefined, Undefined)]
    /\ unauthorized = 0

\* a component calls the gateway with the token of its render, or with an
\* empty string
ApiCall(call, tok) ==
    /\ authPhase = "ready"
    /\ call \notin gwCalls
    /\ Cardinality(gwCalls) + unauthorized < MaxGatewayCalls
    /\ lastRequest' = Request(call, tok)
    /\ gwCalls' = gwCalls \cup {call}
    /\ UNCHANGED <<unauthorized, storeVars>>

\* a handler of the failure that signs the user out
OnUnauthorized_SignsOut ==
    /\ authToken' = {}
    /\ authUser' = {}
    /\ localStorage' = Storage({}, {})
    /\ UNCHANGED <<authLoading, authPhase, authCalls, authIssued, authResult>>

\* what the callers do with the ApiError: refreshCart logs it, the cart
\* mutations rethrow it, ProfilePage shows it; none calls the auth store
OnUnauthorized == UNCHANGED storeVars

\* the gateway answers the call with 401: fetchAPI throws an ApiError
CallUnauthorized(call) ==
    /\ call \in gwCalls
    /\ gwCalls' = gwCalls \ {call}
    /\ unauthorized' = unauthorized + 1
    /\ OnUnauthorized
    /\ UNCHANGED lastRequest

\* the gateway answers the call with 2xx
CallSucceeds(call) ==
    /\ call \in gwCalls
    /\ gwCalls' = gwCalls \ {call}
    /\ UNCHANGED <<unauthorized, lastRequest, storeVars>>

\* the cart, the catalog, the sockets and the catalog result rest
GatewayOnly ==
    UNCHANGED <<cartVars, catalogVars, realtimeVars, handlerVars, backendVars, resultVars,
                wireVars, queryVars, outcomeVars, checkoutVars,
                modalVars, overlapVars>>

GatewayNext ==
    \/ Restore /\ AuthOnly
    \/ authIssued < MaxGatewaySessions /\ signInWithEmail /\ AuthOnly
    \/ authIssued < MaxGatewaySessions /\ signOut /\ AuthOnly
    \/ \E k \in 1..Len(authCalls) : \E a \in {"ok", "rejected"} : LoginReturns(k, a) /\ AuthOnly
    \/ \E k \in 1..Len(authCalls) : SignOutReturns(k, "ok") /\ AuthOnly
    \/ \E call \in ApiCalls : \E tok \in {authToken, Some("")} : ApiCall(call, tok) /\ GatewayOnly
    \/ \E call \in gwCalls : CallUnauthorized(call) /\ GatewayOnly
    \/ \E call \in gwCalls : CallSucceeds(call) /\ GatewayOnly

\* C26: the request of every call has an Authorization header exactly when
\* the token given to the call is a non-empty string, and then it is "Bearer "
\* followed by that token; it has the Content-Type header application/json
\* exactly when the call does not flag a multipart body.
C26_HeadersFollowTokenAndBody ==
    lastRequest.call # "none" =>
        /\ lastRequest.headers.Authorization # {}
              <=> (lastRequest.token # {} /\ lastRequest.token # {""})
        /\ \A h \in lastRequest.headers.Authorization :
              \E t \in lastRequest.token : h = "Bearer " \o t /\ t # ""
        /\ lastRequest.headers.ContentType # {} <=> lastRequest.isMultipart # {TRUE}
        /\ lastRequest.headers.ContentType \subseteq {"application/json"}

\* a signed-in user's multipart upload was sent with the user's token
C26_Witness ==
    /\ lastRequest.call = "uploadAvatar"
    /\ lastRequest.token = authToken /\ authToken # {} /\ authToken # {""}
    /\ lastRequest.headers = Headers({}, {"Bearer " \o The(authToken)})

\* C28: a step in which an authenticated call fails with 401 changes neither
\* the token, nor the user, nor the two localStorage entries of the auth store.
C28_UnauthorizedKeepsSession ==
    [][unauthorized' > unauthorized =>
          /\ authToken' = authToken
          /\ authUser' = authUser
          /\ localStorage' = localStorage]_<<storeVars, gatewayVars>>

\* a signed-in user's call was answered with 401 and the user is still signed in
C28_Witness ==
    /\ unauthorized > 0
    /\ authToken # {} /\ authUser # {}
    /\ localStorage.bookstore_token = authToken

-----------------------------------------------------------------------------
(* The catalog result: AppContent's categories, books and pagination as set *)
(* from the responses, and the page BookCatalog renders from them.          *)

MaxReturned == 14

\* String(cat.id) for the ids the backend uses
StringOfId(id) == CASE id = 1 -> "1" [] id = 2 -> "2" [] OTHER -> id

\* book.category.toLowerCase().replace(/\s+/g, '-')
SlugOf(name) == CASE name = "Fiction Books" -> "fiction-books" [] OTHER -> name

\* a BookCatalogCategory (its timestamps are left out)
Category(id, name, slug) == [id |-> id, name |-> name, slug |-> slug]

\* the category lists GET /categories answers with, as fetchCategories
\* normalizes them: id: String(cat.id), name, slug
CategoryLists ==
    {<<>>,
     <<Category(StringOfId(1), "Novels", "novels")>>,
     <<Category(StringOfId(1), "Novels", "novels"),
       Category(StringOfId(2), "Fiction Books", "fiction-books")>>}

\* the category field of a book of the API: a string, a Category object
\* (of which the id is kept), or none
CategoryField(t, string, id) == [t |-> t, string |-> string, id |-> id]

CategoryFields ==
    {CategoryField("string", "1", 0), CategoryField("string", "Fiction Books", 0),
     CategoryField("string", "", 0), CategoryField("object", "", 2),
     CategoryField("none", "", 0)}

ApiBook(id, category) == [id |-> id, category |-> category]

\* the books of a response: n books, the first with any category field, the
\* others with a Category object
BooksArray(n, first) ==
    [i \in 1..n |-> ApiBook(i, IF i = 1 THEN first ELSE CategoryField("object", "", 1))]

\* categoryMap.get(key): the category the map holds under the key, if any
MapGet(cats, key) ==
    IF \E i \in 1..Len(cats) : cats[i].id = key
    THEN Some(cats[CHOOSE i \in 1..Len(cats) :
                     cats[i].id = key /\ \A j \in (i + 1)..Len(cats) : cats[j].id # key])
    ELSE Undefined

\* a normalizeBook that drops a book whose category string is not in the map
NormalizeBook_DropsUnknown(book, cats) ==
    IF book.category.t = "string"
    THEN (IF MapGet(cats, book.category.string) # Undefined
          THEN Some([id |-> book.id, category |-> The(MapGet(cats, book.category.string))])
          ELSE Undefined)
    ELSE IF book.category.t = "object"
    THEN Some([id |-> book.id,
               category |-> Category(StringOfId(book.category.id), "Category", "category")])
    ELSE Undefined

\* normalizeBook(book, categoryMap): the normalized book, or null (Undefined)
NormalizeBook(book, cats) ==
    IF book.category.t = "string"
    THEN Some([id |-> book.id,
               category |-> IF MapGet(cats, book.category.string) # Undefined
                            THEN The(MapGet(cats, book.category.string))
                            ELSE Category(book.category.string, book.category.string,
                                          SlugOf(book.category.string))])
    ELSE IF book.category.t = "object"
    THEN Some([id |-> book.id,
               category |-> Category(StringOfId(book.category.id), "Category", "category")])
    ELSE Undefined

RECURSIVE NormalizeBooks(_, _)
\* booksArray.map(book => normalizeBook(book, categoryMap)).filter(book => book !== null)
NormalizeBooks(booksArray, cats) ==
    IF booksArray = <<>> THEN <<>>
    ELSE LET b == NormalizeBook(Head(booksArray), cats)
         IN (IF b = Undefined THEN <<>> ELSE <<The(b)>>)
            \o NormalizeBooks(Tail(booksArray), cats)

\* the body of a GET /books response: { books, pagination? } or { data: { books, pagination? } }
BooksResponse(shape, booksArray, paging) ==
    [books |-> IF shape = "flat" THEN Some(booksArray) ELSE Undefined,
     pagination |-> IF shape = "flat" THEN paging ELSE Undefined,
     data |-> IF shape = "data"
              THEN Some([books |-> Some(booksArray), pagination |-> paging])
              ELSE Undefined]

\* response.books || response.data?.books || response.books || []
BooksOf(body) ==
    IF body.books # Undefined THEN The(body.books)
    ELSE IF body.data # Undefined /\ The(body.data).books # Undefined
    THEN The(The(body.data).books)
    ELSE <<>>

\* response.pagination || response.data?.pagination || response.pagination
PaginationOf(body) ==
    IF body.pagination # Undefined THEN body.pagination
    ELSE IF body.data # Undefined THEN The(body.data).pagination
    ELSE Undefined

\* the numbers of books a response carries: none, one, a full page, more than a page
Sizes == {0, 1, ITEMS_PER_PAGE, MaxReturned}

\* the pagination metadata a response may carry
Pagings(n) == {Undefined} \cup {Some([total |-> t]) : t \in {n, 2 * ITEMS_PER_PAGE + 1}}

\* AppContent as first rendered: no categories, no books, no pagination
ResultInit ==
    /\ appCategories = <<>>
    /\ books = <<>>
    /\ pagination = Undefined
    /\ bookFetches = {}
    /\ lastResponse = [booksArray |-> <<>>, categories |-> <<>>]

\* fetchCategories resolves: setCategories(normalizedCategories)
FetchCategoriesResolves(cats) ==
    /\ appCategories = <<>>
    /\ appCategories' = cats
    /\ UNCHANGED <<books, pagination, bookFetches, lastResponse, catalogVars>>

\* the timeout of the [filters, categories] effect fires: fetchBooksWithFilters
\* sends its query; its closure holds the categories of the effect's render
FetchBooksWithFilters ==
    /\ bookFetches' = bookFetches \cup {appCategories}
    /\ UNCHANGED <<appCategories, books, pagination, lastResponse, catalogVars>>

\* the response of a fetchBooksWithFilters arrives: setBooks(normalizedBooks)
\* and setPagination(paginationData)
BooksResponseArrives(cats, body) ==
    /\ cats \in bookFetches
    /\ bookFetches' = bookFetches \ {cats}
    /\ books' = NormalizeBooks(BooksOf(body), cats)
    /\ pagination' = PaginationOf(body)
    /\ lastResponse' = [booksArray |-> BooksOf(body), categories |-> cats]
    /\ UNCHANGED <<appCategories, catalogVars>>

\* Math.ceil(a / b) for a >= 0
Ceil(a, b) == (a + b - 1) \div b

\* totalPages of BookCatalog
TotalPages ==
    IF pagination # Undefined
    THEN Ceil(The(pagination).total, ITEMS_PER_PAGE)
    ELSE IF Ceil(Len(books), ITEMS_PER_PAGE) = 0 THEN 1 ELSE Ceil(Len(books), ITEMS_PER_PAGE)

\* Array.prototype.slice(from, to) on a sequence (0-based, to exclusive)
Slice(s, from, to) ==
    SubSeq(s, (IF from < Len(s) THEN from ELSE Len(s)) + 1, IF to < Len(s) THEN to ELSE Len(s))

\* a rendering that slices the books also when the server has paginated them
VisibleBooks_AlwaysSliced ==
    Slice(books, (currentPage - 1) * ITEMS_PER_PAGE, currentPage * ITEMS_PER_PAGE)

\* visibleBooks of BookCatalog
VisibleBooks ==
    IF pagination # Undefined THEN books
    ELSE Slice(books, (currentPage - 1) * ITEMS_PER_PAGE, currentPage * ITEMS_PER_PAGE)

\* the pager of BookCatalog
TurnPage(page) ==
    /\ HandlePageChange(page)
    /\ UNCHANGED resultVars

\* the cart, the sockets, the auth store and the add handler rest
ResultOnly ==
    UNCHANGED <<cartVars, realtimeVars, storeVars, handlerVars, backendVars, wireVars,
                gatewayVars, queryVars, outcomeVars, checkoutVars,
                modalVars, overlapVars>>

ResultNext ==
    \/ \E cats \in CategoryLists : FetchCategoriesResolves(cats) /\ ResultOnly
    \/ FetchBooksWithFilters /\ ResultOnly
    \/ \E cats \in bookFetches : \E n \in Sizes : \E first \in CategoryFields :
         \E paging \in Pagings(n) : \E shape \in {"flat", "data"} :
            BooksResponseArrives(cats, BooksResponse(shape, BooksArray(n, first), paging))
            /\ ResultOnly
    \/ \E p \in 1..MaxPage : TurnPage(p) /\ ResultOnly

\* C21: every book of a response whose category field is a string is in the
\* normalized books, with the category the list holds under that string or,
\* when the list holds none, with a placeholder made from the string.
C21_StringCategoryKept ==
    \A i \in 1..Len(lastResponse.booksArray) :
        LET book == lastResponse.booksArray[i] IN
        book.category.t = "string" =>
            \E j \in 1..Len(books) :
                /\ books[j].id = book.id
                /\ \/ \E k \in 1..Len(lastResponse.categories) :
                        /\ lastResponse.categories[k].id = book.category.string
                        /\ books[j].category = lastResponse.categories[k]
                   \/ /\ \A k \in 1..Len(lastResponse.categories) :
                            lastResponse.categories[k].id # book.category.string
                      /\ books[j].category.id = book.category.string
                      /\ books[j].category.name = book.category.string

\* a book whose category string is in no fetched category was normalized
C21_Witness ==
    /\ appCategories # <<>>
    /\ lastResponse.categories = appCategories
    /\ Len(lastResponse.booksArray) > 1
    /\ lastResponse.booksArray[1].category = CategoryField("string", "Fiction Books", 0)
    /\ Len(books) = Len(lastResponse.booksArray)
    /\ \A k \in 1..Len(appCategories) : appCategories[k].id # "Fiction Books"

\* C29: with pagination metadata the page count is the number of pages of 12
\* the server's total fills and all books of the response are rendered;
\* without it the rendered books are those at the positions of the current
\* page of 12, in order, and the page count is at least 1.
C29_PaginationOrSlice ==
    IF pagination # Undefined
    THEN /\ TotalPages * ITEMS_PER_PAGE >= The(pagination).total
         /\ ((TotalPages - 1) * ITEMS_PER_PAGE < The(pagination).total
               \/ The(pagination).total = 0)
         /\ VisibleBooks = books
    ELSE /\ TotalPages >= 1
         /\ LET first == (currentPage - 1) * ITEMS_PER_PAGE + 1
                positions == {i \in 1..Len(books) : i >= first /\ i < first + ITEMS_PER_PAGE}
            IN /\ Len(VisibleBooks) = Cardinality(positions)
               /\ \A i \in 1..Len(VisibleBooks) : VisibleBooks[i] = books[first + i - 1]

\* page 2 of more than 12 books that came without pagination metadata: the
\* books after the 12th are rendered
C29_Witness ==
    /\ pagination = Undefined
    /\ Len(books) = MaxReturned
    /\ currentPage = 2
    /\ Len(VisibleBooks) = MaxReturned - ITEMS_PER_PAGE

-----------------------------------------------------------------------------
(* The GET /books requests in flight: each fetchBooksWithFilters awaits its *)
(* own response and sets books and pagination from it; BookCatalog's pager  *)
(* is drawn from the pagination set last.                                   *)

MaxQueries == 2

\* a fetchBooksWithFilters call between its request and its response
BooksQuery(seq, query) == [seq |-> seq, query |-> query]

\* whether a query string carries the parameter
HasParam(query, name) == \E i \in 1..Len(query) : query[i][1] = name

\* the catalogue behind GET /books: one more book than a page holds, of which
\* a category filter or a search text matches one
MatchingBooks(query) ==
    IF HasParam(query, "categories") \/ HasParam(query, "search")
    THEN 1
    ELSE ITEMS_PER_PAGE + 1

\* the rows of the page the query asks for
PageRows(query) ==
    LET skip == (PageOf(query) - 1) * ITEMS_PER_PAGE
        n    == Min(ITEMS_PER_PAGE, IF MatchingBooks(query) > skip
                                    THEN MatchingBooks(query) - skip ELSE 0)
    IN [i \in 1..n |-> ApiBook(skip + i, CategoryField("object", "", 1))]

\* the response of the backend to GET /books?query
BooksAnswer(query) ==
    BooksResponse("flat", PageRows(query), Some([total |-> MatchingBooks(query)]))

\* the AppContent timeout fires and fetchBooksWithFilters sends its query
SendQuery(t) ==
    /\ querySeq < MaxQueries
    /\ AppTimerFires(t)
    /\ querySeq' = querySeq + 1
    /\ booksInFlight' = booksInFlight \cup {BooksQuery(querySeq + 1, BuildQueryString(t.payload))}
    /\ UNCHANGED <<resultVars, shownQuery>>

\* the response of one of the calls arrives, in any order: setBooks and
\* setPagination with what it carries
BooksAnswered(f) ==
    /\ f \in booksInFlight
    /\ booksInFlight' = booksInFlight \ {f}
    /\ books' = NormalizeBooks(BooksOf(BooksAnswer(f.query)), appCategories)
    /\ pagination' = PaginationOf(BooksAnswer(f.query))
    /\ lastResponse' = [booksArray |-> BooksOf(BooksAnswer(f.query)),
                        categories |-> appCategories]
    /\ shownQuery' = f
    /\ UNCHANGED <<appCategories, bookFetches, querySeq, catalogVars>>

\* handlePageChange from the pager: the pager is rendered when there is more
\* than one page; the numbered buttons, "previous" unless on page 1, "next"
\* unless on the last page
PagerClick(page) ==
    /\ TotalPages > 1
    /\ \/ page \in 1..TotalPages
       \/ page = currentPage - 1 /\ currentPage # 1
       \/ page = currentPage + 1 /\ currentPage # TotalPages
    /\ HandlePageChange(page)

OverlapOnly ==
    UNCHANGED <<cartVars, realtimeVars, storeVars, handlerVars, backendVars, wireVars,
                gatewayVars, queryVars, outcomeVars, checkoutVars, modalVars>>

CatalogResting == UNCHANGED <<resultVars, overlapVars>>

OverlapNext ==
    \/ \E c \in CategorySets : HandleCategoryChange(c) /\ CatalogResting /\ OverlapOnly
    \/ \E q \in SearchTexts : SearchChange(q) /\ CatalogResting /\ OverlapOnly
    \/ \E p \in 1..(MaxPage + 1) : PagerClick(p) /\ CatalogResting /\ OverlapOnly
    \/ \E t \in catalogTimers : CatalogTimerFires(t) /\ CatalogResting /\ OverlapOnly
    \/ \E t \in appTimers : SendQuery(t) /\ OverlapOnly
    \/ CategoriesLoaded /\ CatalogResting /\ OverlapOnly
    \/ Tick /\ CatalogResting /\ OverlapOnly
    \/ \E f \in booksInFlight : BooksAnswered(f) /\ OverlapOnly

\* C39: once every query sent has been answered, the books and the pagination
\* on screen are those of the query sent last, whatever the order in which
\* the responses arrived.
C39_LatestQueryShown ==
    (booksInFlight = {} /\ querySeq > 0) =>
        /\ shownQuery.query = lastQuery
        /\ pagination = PaginationOf(BooksAnswer(lastQuery))
        /\ books = NormalizeBooks(BooksOf(BooksAnswer(lastQuery)), appCategories)

\* C40: the current page of BookCatalog is one of the pages 1..totalPages.
C40_PageWithinTotal == currentPage \in 1..TotalPages

-----------------------------------------------------------------------------
(* The frames on the sockets: ChatWidget.sendMessage, ws.onmessage of the   *)
(* chat socket and socket.onmessage of the notification socket.  A JSON     *)
(* text that is sent is the sequence of its tokens.                         *)

MaxSends == 2
MaxFrames == 2

\* the texts the input field holds
Inputs == {"", " ", " hi "}

\* String.prototype.trim
Trim(text) == CASE text = " " -> "" [] text = " hi " -> "hi" [] OTHER -> text

\* JSON.stringify of a string
Quote(text) == "\"" \o text \o "\""

\* JSON.stringify({ content: input })
StringifyContent(text) == <<"{", Quote("content"), ":", Quote(text), "}">>

RECURSIVE Concat(_)
\* the characters of a text given by its tokens
Concat(tokens) == IF tokens = <<>> THEN "" ELSE Head(tokens) \o Concat(Tail(tokens))

\* JSON.stringify(messageData): the payload is a string that holds JSON
ChatEnvelope_StringPayload(text) ==
    <<"{", Quote("type"), ":", Quote("chat"), ",", Quote("payload"), ":",
      Quote(Concat(StringifyContent(text))), "}">>

\* JSON.stringify({ type: 'chat', payload: { content: input } })
ChatEnvelope(text) ==
    <<"{", Quote("type"), ":", Quote("chat"), ",", Quote("payload"), ":">>
    \o StringifyContent(text) \o <<"}">>

\* event.data of a message event and what JSON.parse makes of it: valid is
\* FALSE for a text that is not JSON; kind is the kind of the parsed value;
\* type, payload and message are the members of a parsed object, {} if absent
Frame(valid, kind, type, payload, message) ==
    [valid |-> valid, kind |-> kind, type |-> type, payload |-> payload,
     message |-> message]

ChatFrames == {Frame(TRUE, "object", Some("chat"), Some(m), Undefined) : m \in Postable}

OtherFrames ==
    {Frame(TRUE, "object", Some("typing"), Some(Msg(4, 25)), Undefined),
     Frame(TRUE, "object", Undefined, Some(Msg(4, 25)), Undefined),
     Frame(TRUE, "object", Some("notification"), Undefined, Some("order shipped")),
     Frame(TRUE, "null", Undefined, Undefined, Undefined),
     Frame(FALSE, "none", Undefined, Undefined, Undefined)}

Frames == ChatFrames \cup OtherFrames

\* an onmessage that appends whatever payload a frame carries
OnMessage_AnyPayload(prev, frame) ==
    IF ~frame.valid THEN prev
    ELSE IF frame.kind = "null" THEN prev
    ELSE IF frame.payload # Undefined THEN Append(prev, The(frame.payload))
    ELSE prev

\* the message list after ws.onmessage: JSON.parse throws on a text that is
\* not JSON and data.type throws on null, both inside the try; any other
\* value has a type member or none
OnMessage(prev, frame) ==
    IF ~frame.valid THEN prev
    ELSE IF frame.kind = "null" THEN prev
    ELSE IF frame.type = Some("chat") THEN Append(prev, The(frame.payload))
    ELSE prev

WireInit ==
    /\ input = ""
    /\ sendCalls = <<>>
    /\ frameLog = [handled |-> 0, on |-> "none",
                   frame |-> Frame(FALSE, "none", Undefined, Undefined, Undefined)]

\* onChange of the input field: setInput(e.target.value)
SetInput(text) ==
    /\ mounted = "ChatWidget"
    /\ session # 0
    /\ text # input
    /\ input' = text
    /\ UNCHANGED <<sendCalls, frameLog, realtimeVars, toast, handled>>

\* ChatWidget.sendMessage.  WebSocket.send throws on a socket that is still
\* connecting, queues the data on an open one and drops it on one that is
\* closing or closed.
sendMessage ==
    /\ mounted = "ChatWidget"
    /\ session # 0
    /\ Len(sendCalls) < MaxSends
    /\ IF Trim(input) = "" \/ socketRef = 0
       THEN UNCHANGED <<input, sendCalls>>
       ELSE IF chatSockets[socketRef].state = "connecting"
       THEN UNCHANGED <<input, sendCalls>>
       ELSE /\ sendCalls' = Append(sendCalls, [socket |-> socketRef,
                                               readyState |-> chatSockets[socketRef].state,
                                               data |-> ChatEnvelope(input)])
            /\ input' = ""
    /\ UNCHANGED <<frameLog, realtimeVars, toast, handled>>

\* a message event on chat socket i: ws.onmessage
ChatMessageEvent(i, frame) ==
    /\ i \in DOMAIN chatSockets
    /\ chatSockets[i].state = "open"
    /\ frameLog.handled < MaxFrames
    /\ messages' = OnMessage(messages, frame)
    /\ delivered' = delivered \cup {messages'[k] : k \in DOMAIN messages'}
    /\ frameLog' = [handled |-> frameLog.handled + 1, on |-> "chat", frame |-> frame]
    /\ UNCHANGED <<authVars, chatSocketVars, fetches, serverLog, appSocketVars, rejected,
                   input, sendCalls, toast, handled>>

\* a message event on notification socket i: socket.onmessage
AppMessageEvent(i, frame) ==
    /\ i \in DOMAIN appSockets
    /\ appSockets[i].state = "open"
    /\ frameLog.handled < MaxFrames
    /\ toast' = IF frame.valid /\ frame.kind = "object" /\ frame.message # Undefined
                THEN frame.message ELSE toast
    /\ frameLog' = [handled |-> frameLog.handled + 1, on |-> "app", frame |-> frame]
    /\ UNCHANGED <<realtimeVars, input, sendCalls, handled>>

\* the cart, the catalog and the auth store rest
WireOnly ==
    UNCHANGED <<cartVars, catalogVars, storeVars, backendVars, resultVars, gatewayVars,
                queryVars, outcomeVars, checkoutVars,
                modalVars, overlapVars>>

\* the realtime sockets move, the frames and the toast stay
SocketsOnly == UNCHANGED <<wireVars, handlerVars>> /\ WireOnly

WireNext ==
    \/ Login /\ SocketsOnly
    \/ ChatEffect /\ SocketsOnly
    \/ \E i \in 1..MaxChatSockets : ChatSocketOpens(i) /\ SocketsOnly
    \/ \E i \in 1..MaxChatSockets : ChatConnectionLost(i) /\ SocketsOnly
    \/ AppEffect /\ SocketsOnly
    \/ \E i \in 1..MaxAppSockets : AppSocketOpens(i) /\ SocketsOnly
    \/ \E text \in Inputs : SetInput(text) /\ WireOnly
    \/ sendMessage /\ WireOnly
    \/ \E i \in 1..MaxChatSockets : \E frame \in Frames : ChatMessageEvent(i, frame) /\ WireOnly
    \/ \E i \in 1..MaxAppSockets : \E frame \in Frames : AppMessageEvent(i, frame) /\ WireOnly

C24_OneStructuredEnvelope ==
    /\ [](\A k \in 1..Len(sendCalls) :
            LET data == sendCalls[k].data IN
            /\ Len(data) = 13
            /\ data[1] = "{" /\ data[13] = "}"
            /\ data[2] = "\"type\"" /\ data[4] = "\"chat\""
            /\ data[6] = "\"payload\"" /\ data[8] = "{"
            /\ data[9] = "\"content\"" /\ data[12] = "}"
            /\ data[11] \notin {"\"\"", "\" \""})
    /\ [][/\ Len(sendCalls') <= Len(sendCalls) + 1
          /\ SubSeq(sendCalls', 1, Len(sendCalls)) = sendCalls
          /\ (Trim(input) = "" \/ socketRef = 0) => sendCalls' = sendCalls
          /\ sendCalls' # sendCalls =>
                /\ input' = ""
                /\ sendCalls'[Len(sendCalls')].data[11] = "\"" \o input \o "\""
         ]_<<realtimeVars, wireVars>>

\* a text was sent on an open socket
C24_Witness ==
    /\ Len(sendCalls) = 1
    /\ sendCalls[1].readyState = "open"
    /\ sendCalls[1].data[11] = "\" hi \""
    /\ input = ""

-----------------------------------------------------------------------------
(* The specifications: one part runs, the others rest in their initial state *)

vars == <<cartVars, catalogVars, realtimeVars, storeVars, handlerVars, backendVars,
         resultVars, wireVars, gatewayVars, queryVars, outcomeVars, checkoutVars,
         modalVars, overlapVars>>

\* the cart at rest: signed out
CartIdle == CartInit /\ token = 0

\* the sockets at rest: signed out, no socket created
RealtimeIdle == RealtimeInit /\ mounted = "AppContent"

\* the auth store at rest: nothing persisted, never mounted
AuthIdle == AuthInit /\ localStorage = Storage({}, {})
\* the documented backend answers GET /cart with { items, total, itemCount }
BackendInit == envelope = "flat"

\* the drawer and the login modal at rest
CheckoutInit == address = "" /\ notice = "none"
ModalInit == pendingCartAction = 0 /\ showLoginModal = FALSE /\ loginFlight = {}
\* no GET /books sent yet
NoShown == [seq |-> 0, query |-> NoQuery]
OverlapInit == booksInFlight = {} /\ querySeq = 0 /\ shownQuery = NoShown
InitCart == CartInit /\ CatalogInit /\ RealtimeIdle /\ AuthIdle /\ HandlerInit /\ BackendInit /\ ResultInit /\ WireInit /\ GatewayInit /\ QueryIdle /\ OutcomeInit /\ CheckoutInit /\ ModalInit /\ OverlapInit
SpecCart == InitCart /\ [][CartNext]_vars
InitDebounce == CartIdle /\ CatalogInit /\ RealtimeIdle /\ AuthIdle /\ HandlerInit /\ BackendInit /\ ResultInit /\ WireInit /\ GatewayInit /\ QueryIdle /\ OutcomeInit /\ CheckoutInit /\ ModalInit /\ OverlapInit
SpecDebounce == InitDebounce /\ [][DebounceNext]_vars
SpecPaging == InitDebounce /\ [][PagingNext]_vars
InitRealtime == CartIdle /\ CatalogInit /\ RealtimeInit /\ AuthIdle /\ HandlerInit /\ BackendInit /\ ResultInit /\ WireInit /\ GatewayInit /\ QueryIdle /\ OutcomeInit /\ CheckoutInit /\ ModalInit /\ OverlapInit
SpecRealtime == InitRealtime /\ [][RealtimeNext]_vars
InitChat == CartIdle /\ CatalogInit /\ RealtimeInit /\ mounted = "ChatWidget" /\ AuthIdle /\ HandlerInit /\ BackendInit /\ ResultInit /\ WireInit /\ GatewayInit /\ QueryIdle /\ OutcomeInit /\ CheckoutInit /\ ModalInit /\ OverlapInit
SpecChat == InitChat /\ [][ChatNext]_vars
InitAuth == CartIdle /\ CatalogInit /\ RealtimeIdle /\ AuthInit /\ HandlerInit /\ BackendInit /\ ResultInit /\ WireInit /\ GatewayInit /\ QueryIdle /\ OutcomeInit /\ CheckoutInit /\ ModalInit /\ OverlapInit
SpecAuth == InitAuth /\ [][AuthNext]_vars
InitHandler == CartInit /\ token = 1 /\ CatalogInit /\ RealtimeIdle /\ AuthIdle /\ HandlerInit
               /\ envelope \in Envelopes /\ ResultInit /\ WireInit /\ GatewayInit /\ QueryIdle /\ OutcomeInit /\ CheckoutInit /\ ModalInit /\ OverlapInit
SpecHandler == InitHandler /\ [][HandlerNext]_vars
InitResult == CartIdle /\ CatalogInit /\ RealtimeIdle /\ AuthIdle /\ HandlerInit /\ BackendInit /\ ResultInit /\ WireInit /\ GatewayInit /\ QueryIdle /\ OutcomeInit /\ CheckoutInit /\ ModalInit /\ OverlapInit
SpecResult == InitResult /\ [][ResultNext]_vars
InitWire == CartIdle /\ CatalogInit /\ RealtimeInit /\ AuthIdle /\ HandlerInit /\ BackendInit /\ ResultInit /\ WireInit /\ GatewayInit /\ QueryIdle /\ OutcomeInit /\ CheckoutInit /\ ModalInit /\ OverlapInit
SpecWire == InitWire /\ [][WireNext]_vars
InitGateway == CartIdle /\ CatalogInit /\ RealtimeIdle /\ AuthInit /\ HandlerInit /\ BackendInit /\ ResultInit /\ WireInit /\ GatewayInit /\ QueryIdle /\ OutcomeInit /\ CheckoutInit /\ ModalInit /\ OverlapInit
SpecGateway == InitGateway /\ [][GatewayNext]_vars
InitQuery == CartIdle /\ CatalogInit /\ RealtimeIdle /\ AuthIdle /\ HandlerInit /\ BackendInit /\ ResultInit /\ WireInit /\ GatewayInit /\ QueryInit /\ OutcomeInit /\ CheckoutInit /\ ModalInit /\ OverlapInit
SpecQuery == InitQuery /\ [][QueryNext]_vars
InitMutation == CartInit /\ token = 1 /\ CatalogInit /\ RealtimeIdle /\ AuthIdle /\ HandlerInit /\ BackendInit /\ ResultInit /\ WireInit /\ GatewayInit /\ QueryIdle /\ OutcomeInit /\ CheckoutInit /\ ModalInit /\ OverlapInit
SpecMutation == InitMutation /\ [][MutationNext]_vars
InitGuard == CartInit /\ CatalogInit /\ RealtimeIdle /\ AuthIdle /\ HandlerInit /\ BackendInit /\ ResultInit /\ WireInit /\ GatewayInit /\ QueryIdle /\ OutcomeInit /\ CheckoutInit /\ ModalInit /\ OverlapInit
SpecGuard == InitGuard /\ [][GuardNext]_vars
InitCheckout == CartInit /\ CatalogInit /\ RealtimeIdle /\ AuthIdle /\ HandlerInit /\ BackendInit /\ ResultInit /\ WireInit /\ GatewayInit /\ QueryIdle /\ OutcomeInit /\ CheckoutStart /\ ModalInit /\ OverlapInit
SpecCheckout == InitCheckout /\ [][CheckoutNext]_vars
InitPending == CartInit /\ token = 0 /\ CatalogInit /\ RealtimeIdle /\ AuthIdle /\ HandlerInit /\ BackendInit /\ ResultInit /\ WireInit /\ GatewayInit /\ QueryIdle /\ OutcomeInit /\ CheckoutInit /\ ModalInit /\ OverlapInit
SpecPending == InitPending /\ [][PendingNext]_vars
SpecOverlap == InitDebounce /\ [][OverlapNext]_vars
====
